---- MODULE Spec2Model ----
(***************************************************************************)
(* A model of stanu: the lossless HCL lexer (src/src/lexer.rs), the CST     *)
(* parser (src/src/parser/) and the canonical formatter                     *)
(* (src/src/formatter.rs).                                                  *)
(*                                                                          *)
(* Text is a sequence of bytes.  An ASCII byte is a one-character string;   *)
(* the two bytes of the one non-ASCII scalar of the model are Lead, Cont.   *)
(* A token is [kind, text]; a tree node is [kind, ch] with ch the sequence  *)
(* of its children (nodes and tokens) in source order.                      *)
(***************************************************************************)
EXTENDS Integers, Sequences, FiniteSets, TLC

\* ------------------------------------------------------------------------
\* Characters
\* ------------------------------------------------------------------------

\* The two bytes of a two-byte UTF-8 scalar, and the scalar they decode to.
Lead == "<C3>"
Cont == "<A9>"
Scalar2 == "<U+00E9>"
\* Option<char>::None, and a slice taken off a char boundary or out of bounds.
NoChar == "<none>"
PanicChar == "<panic>"
\* The position of a lexer that has panicked.
PanicPos == -1

Digit == {"0", "1", "2", "3", "4", "5", "6", "7", "8", "9"}
Lower == {"a", "b", "c", "d", "e", "f", "g", "h", "i", "j", "k", "l", "m",
          "n", "o", "p", "q", "r", "s", "t", "u", "v", "w", "x", "y", "z"}
Upper == {"A", "B", "C", "D", "E", "F", "G", "H", "I", "J", "K", "L", "M",
          "N", "O", "P", "Q", "R", "S", "T", "U", "V", "W", "X", "Y", "Z"}
Alpha == Lower \cup Upper
AlphaNum == Alpha \cup Digit
HexDigit == Digit \cup {"a", "b", "c", "d", "e", "f", "A", "B", "C", "D", "E", "F"}
IdentStart == Alpha \cup {"_"}
IdentCont == AlphaNum \cup {"_", "-"}
AnchorChar == AlphaNum \cup {"_"}
Blank == {" ", "\t", "\r"}
IndentChar == {" ", "\t"}

len_utf8(c) == IF c = Scalar2 THEN 2 ELSE 1

\* Sequence helpers.
Last(q) == q[Len(q)]
Front(q) == SubSeq(q, 1, Len(q) - 1)
RECURSIVE Flatten(_)
Flatten(qq) == IF qq = <<>> THEN <<>> ELSE Head(qq) \o Flatten(Tail(qq))

\* ------------------------------------------------------------------------
\* Lexer (src/src/lexer.rs).  pos is a byte offset, 0-based as in the code.
\* ------------------------------------------------------------------------

ModeEntry_new(mode) ==
    [mode |-> mode, brace_depth |-> 0, heredoc_anchor |-> <<>>, heredoc_indent |-> FALSE]

ModeEntry_heredoc(anchor, indent) ==
    [mode |-> "HeredocTemplate", brace_depth |-> 0,
     heredoc_anchor |-> anchor, heredoc_indent |-> indent]

\* self.source[self.pos + offset..].chars().next()
peek_char_at(s, pos, offset) ==
    LET i == pos + offset IN
    IF pos = PanicPos \/ i > Len(s) THEN PanicChar
    ELSE IF i = Len(s) THEN NoChar
    ELSE IF s[i + 1] = Cont THEN PanicChar
    ELSE IF s[i + 1] = Lead THEN Scalar2
    ELSE s[i + 1]

peek_char(s, pos) == peek_char_at(s, pos, 0)

\* chars().next().unwrap() panics when there is no character.
advance(s, pos) ==
    LET c == peek_char(s, pos)
    IN IF c \in {NoChar, PanicChar} THEN PanicPos ELSE pos + len_utf8(c)

RECURSIVE advance_n(_, _, _)
advance_n(s, pos, n) ==
    IF n = 0 THEN pos
    ELSE advance_n(s, IF pos < Len(s) THEN advance(s, pos) ELSE pos, n - 1)

\* remaining().starts_with(pat)
starts_with(s, pos, pat) ==
    /\ pos + Len(pat) <= Len(s)
    /\ SubSeq(s, pos + 1, pos + Len(pat)) = pat

\* while pos < len { match peek_char() { Some(c) if c in S => advance, _ => break } }
RECURSIVE advance_while(_, _, _)
advance_while(s, pos, S) ==
    IF pos < Len(s) /\ peek_char(s, pos) \in S
    THEN advance_while(s, advance(s, pos), S)
    ELSE pos

\* make_token with the slice one byte short.
make_token_short(s, kind, start, pos) == [kind |-> kind, text |-> SubSeq(s, start + 1, pos - 1)]

make_token(s, kind, start, pos) == [kind |-> kind, text |-> SubSeq(s, start + 1, pos)]

\* What a lex function leaves behind: the new position, the new mode stack
\* and the token it made.
Lexed(s, kind, start, pos, ms) ==
    [pos |-> pos, mode_stack |-> ms, tok |-> make_token(s, kind, start, pos)]

lex_whitespace(s, start, ms) ==
    Lexed(s, "WHITESPACE", start, advance_while(s, start, Blank), ms)

RECURSIVE line_comment_end(_, _)
line_comment_end(s, pos) ==
    IF pos < Len(s) /\ peek_char(s, pos) # "\n"
    THEN line_comment_end(s, advance(s, pos))
    ELSE pos

lex_line_comment(s, start, ms) ==
    Lexed(s, "LINE_COMMENT", start, line_comment_end(s, start), ms)

RECURSIVE block_comment_end(_, _, _)
block_comment_end(s, pos, depth) ==
    IF pos < Len(s) /\ depth > 0
    THEN IF starts_with(s, pos, <<"/", "*">>)
         THEN block_comment_end(s, advance_n(s, pos, 2), depth + 1)
         ELSE IF starts_with(s, pos, <<"*", "/">>)
         THEN block_comment_end(s, advance_n(s, pos, 2), depth - 1)
         ELSE block_comment_end(s, advance(s, pos), depth)
    ELSE pos

lex_block_comment(s, start, ms) ==
    Lexed(s, "BLOCK_COMMENT", start, block_comment_end(s, advance_n(s, start, 2), 1), ms)

lex_number(s, start, ms) ==
    LET p1 == advance_while(s, start, Digit)
        p2 == IF peek_char(s, p1) = "." /\ peek_char_at(s, p1, 1) \in Digit
              THEN advance_while(s, advance(s, p1), Digit)
              ELSE p1
        p3 == IF peek_char(s, p2) \in {"e", "E"}
              THEN LET q1 == advance(s, p2)
                       q2 == IF peek_char(s, q1) \in {"+", "-"} THEN advance(s, q1) ELSE q1
                   IN advance_while(s, q2, Digit)
              ELSE p2
    IN Lexed(s, "NUMBER", start, p3, ms)

keyword_kind(text) ==
    CASE text = <<"t", "r", "u", "e">> -> "TRUE_KW"
      [] text = <<"f", "a", "l", "s", "e">> -> "FALSE_KW"
      [] text = <<"n", "u", "l", "l">> -> "NULL_KW"
      [] text = <<"f", "o", "r">> -> "FOR_KW"
      [] text = <<"i", "n">> -> "IN_KW"
      [] text = <<"i", "f">> -> "IF_KW"
      [] text = <<"e", "l", "s", "e">> -> "ELSE_KW"
      [] text = <<"e", "n", "d", "i", "f">> -> "ENDIF_KW"
      [] text = <<"e", "n", "d", "f", "o", "r">> -> "ENDFOR_KW"
      [] OTHER -> "IDENT"

lex_ident(s, start, ms) ==
    LET p == advance_while(s, start, IdentCont)
    IN Lexed(s, keyword_kind(SubSeq(s, start + 1, p)), start, p, ms)

lex_heredoc_open(s, start, ms) ==
    LET p0 == advance_n(s, start, 2)
        indent == peek_char(s, p0) = "-"
        anchor_start == IF indent THEN advance(s, p0) ELSE p0
        p1 == advance_while(s, anchor_start, AnchorChar)
        anchor == SubSeq(s, anchor_start + 1, p1)
        p2 == IF peek_char(s, p1) = "\r" THEN advance(s, p1) ELSE p1
        p3 == IF peek_char(s, p2) = "\n" THEN advance(s, p2) ELSE p2
    IN Lexed(s, "HEREDOC_OPEN", start, p3, Append(ms, ModeEntry_heredoc(anchor, indent)))

IsTemplateMode(m) == m \in {"Interpolation", "Directive"}

BumpDepth(ms, d) ==
    [ms EXCEPT ![Len(ms)].brace_depth = ms[Len(ms)].brace_depth + d]

\* should_pop without the test of brace_depth.
should_pop_at_any_depth(ms) == ms # <<>> /\ IsTemplateMode(Last(ms).mode)

\* should_pop without the test of the mode of the frame on top.
should_pop_any_mode(ms) == ms # <<>> /\ Last(ms).brace_depth = 0

\* `let should_pop` of the '}' arm of lex_operator.
should_pop(ms) ==
    ms # <<>> /\ IsTemplateMode(Last(ms).mode) /\ Last(ms).brace_depth = 0

lex_operator(s, start, ms) ==
    LET c == peek_char(s, start)
        p == advance(s, start)
        n == peek_char(s, p)
        one(kind) == Lexed(s, kind, start, p, ms)
        two(kind) == Lexed(s, kind, start, advance(s, p), ms)
    IN CASE c = "=" -> IF n = "=" THEN two("EQ_EQ")
                       ELSE IF n = ">" THEN two("FAT_ARROW")
                       ELSE one("EQ")
         [] c = "!" -> IF n = "=" THEN two("BANG_EQ") ELSE one("BANG")
         [] c = "<" -> IF n = "=" THEN two("LT_EQ") ELSE one("LT")
         [] c = ">" -> IF n = "=" THEN two("GT_EQ") ELSE one("GT")
         [] c = "&" /\ n = "&" -> two("AMP_AMP")
         [] c = "|" /\ n = "|" -> two("PIPE_PIPE")
         [] c = "+" -> one("PLUS")
         [] c = "-" -> one("MINUS")
         [] c = "*" -> one("STAR")
         [] c = "/" -> one("SLASH")
         [] c = "%" -> one("PERCENT")
         [] c = "(" -> one("PAREN_L")
         [] c = ")" -> one("PAREN_R")
         [] c = "{" ->
              Lexed(s, "BRACE_L", start, p,
                    IF ms # <<>> /\ IsTemplateMode(Last(ms).mode)
                    THEN BumpDepth(ms, 1) ELSE ms)
         [] c = "}" ->
              IF should_pop(ms)
              THEN Lexed(s, "TEMPLATE_CLOSE", start, p, Front(ms))
              ELSE Lexed(s, "BRACE_R", start, p,
                         IF ms # <<>> /\ IsTemplateMode(Last(ms).mode)
                         THEN BumpDepth(ms, -1) ELSE ms)
         [] c = "[" -> one("BRACKET_L")
         [] c = "]" -> one("BRACKET_R")
         [] c = "," -> one("COMMA")
         [] c = "." -> IF starts_with(s, p, <<".", ".">>)
                       THEN Lexed(s, "ELLIPSIS", start, advance_n(s, p, 2), ms)
                       ELSE one("DOT")
         [] c = ":" -> one("COLON")
         [] c = "?" -> one("QUESTION")
         [] c = "~" -> one("TILDE")
         [] OTHER -> one("ERROR_TOKEN")

lex_normal(s, start, ms) ==
    LET c == peek_char(s, start) IN
    IF c \in Blank THEN lex_whitespace(s, start, ms)
    ELSE IF c = "\n" THEN Lexed(s, "NEWLINE", start, advance(s, start), ms)
    ELSE IF c = "#" THEN lex_line_comment(s, start, ms)
    ELSE IF c = "/" /\ peek_char_at(s, start, 1) = "/" THEN lex_line_comment(s, start, ms)
    ELSE IF c = "/" /\ peek_char_at(s, start, 1) = "*" THEN lex_block_comment(s, start, ms)
    ELSE IF c \in Digit THEN lex_number(s, start, ms)
    ELSE IF c \in IdentStart THEN lex_ident(s, start, ms)
    ELSE IF c = "\""
    THEN Lexed(s, "QUOTE", start, advance(s, start), Append(ms, ModeEntry_new("StringTemplate")))
    ELSE IF c = "<" /\ peek_char_at(s, start, 1) = "<" THEN lex_heredoc_open(s, start, ms)
    ELSE lex_operator(s, start, ms)

\* for _ in 0..n { if pos < len && peek is a hex digit { advance } }
RECURSIVE hex_digits_end(_, _, _)
hex_digits_end(s, pos, n) ==
    IF n = 0 THEN pos
    ELSE hex_digits_end(s,
             IF pos < Len(s) /\ peek_char(s, pos) \in HexDigit THEN advance(s, pos) ELSE pos,
             n - 1)

\* lex_escape_sequence without the test for the end of the text.
lex_escape_sequence_unchecked(s, start, ms) ==
    LET p == advance(s, start)
    IN Lexed(s, "ESCAPE_SEQUENCE", start, advance(s, p), ms)

lex_escape_sequence(s, start, ms) ==
    LET p == advance(s, start) IN
    IF p >= Len(s) THEN Lexed(s, "ERROR_TOKEN", start, p, ms)
    ELSE LET c == peek_char(s, p)
             q == advance(s, p)
             e == CASE c = "u" -> hex_digits_end(s, q, 4)
                    [] c = "U" -> hex_digits_end(s, q, 8)
                    [] OTHER -> q
         IN Lexed(s, "ESCAPE_SEQUENCE", start, e, ms)

AtTemplateOpen(s, pos) ==
    peek_char(s, pos) \in {"$", "%"} /\ peek_char_at(s, pos, 1) = "{"

RECURSIVE string_fragment_end(_, _)
string_fragment_end(s, pos) ==
    IF pos < Len(s) /\ peek_char(s, pos) \notin {"\"", "\\"} /\ ~AtTemplateOpen(s, pos)
    THEN string_fragment_end(s, advance(s, pos))
    ELSE pos

lex_string_fragment(s, start, ms) ==
    Lexed(s, "STRING_FRAGMENT", start, string_fragment_end(s, start), ms)

lex_string_template(s, start, ms) ==
    LET c == peek_char(s, start) IN
    IF c = "\"" THEN Lexed(s, "QUOTE", start, advance(s, start), Front(ms))
    ELSE IF c = "$" /\ peek_char_at(s, start, 1) = "{"
    THEN Lexed(s, "DOLLAR_OPEN", start, advance_n(s, start, 2),
               Append(ms, ModeEntry_new("Interpolation")))
    ELSE IF c = "%" /\ peek_char_at(s, start, 1) = "{"
    THEN Lexed(s, "PERCENT_OPEN", start, advance_n(s, start, 2),
               Append(ms, ModeEntry_new("Directive")))
    ELSE IF c = "\\" THEN lex_escape_sequence(s, start, ms)
    ELSE lex_string_fragment(s, start, ms)

is_at_heredoc_close(s, pos, ms) ==
    /\ ms # <<>>
    /\ Last(ms).mode = "HeredocTemplate"
    /\ LET entry == Last(ms)
           content == IF entry.heredoc_indent THEN advance_while(s, pos, IndentChar) ELSE pos
           after == content + Len(entry.heredoc_anchor)
       IN /\ (pos = 0 \/ s[pos] = "\n")
          /\ starts_with(s, content, entry.heredoc_anchor)
          /\ (after = Len(s) \/ s[after + 1] \in {"\n", "\r"})

RECURSIVE heredoc_content_end(_, _, _)
heredoc_content_end(s, pos, ms) ==
    IF pos >= Len(s) \/ AtTemplateOpen(s, pos) THEN pos
    ELSE IF peek_char(s, pos) = "\n"
    THEN LET p == advance(s, pos) IN
         IF is_at_heredoc_close(s, p, ms) THEN p ELSE heredoc_content_end(s, p, ms)
    ELSE heredoc_content_end(s, advance(s, pos), ms)

lex_heredoc_content(s, start, ms) ==
    Lexed(s, "HEREDOC_CONTENT", start, heredoc_content_end(s, start, ms), ms)

lex_heredoc_template(s, start, ms) ==
    IF is_at_heredoc_close(s, start, ms)
    THEN LET p == IF Last(ms).heredoc_indent THEN advance_while(s, start, IndentChar) ELSE start
         IN Lexed(s, "HEREDOC_ANCHOR", start, p + Len(Last(ms).heredoc_anchor), Front(ms))
    ELSE LET c == peek_char(s, start) IN
         IF c = "$" /\ peek_char_at(s, start, 1) = "{"
         THEN Lexed(s, "DOLLAR_OPEN", start, advance_n(s, start, 2),
                    Append(ms, ModeEntry_new("Interpolation")))
         ELSE IF c = "%" /\ peek_char_at(s, start, 1) = "{"
         THEN Lexed(s, "PERCENT_OPEN", start, advance_n(s, start, 2),
                    Append(ms, ModeEntry_new("Directive")))
         ELSE lex_heredoc_content(s, start, ms)

current_mode(ms) == IF ms = <<>> THEN "Normal" ELSE Last(ms).mode

next_token(s, pos, ms) ==
    CASE current_mode(ms) \in {"Normal", "Interpolation", "Directive"} -> lex_normal(s, pos, ms)
      [] current_mode(ms) = "StringTemplate" -> lex_string_template(s, pos, ms)
      [] current_mode(ms) = "HeredocTemplate" -> lex_heredoc_template(s, pos, ms)

Lexer_new == [pos |-> 0, mode_stack |-> <<ModeEntry_new("Normal")>>]

\* ------------------------------------------------------------------------
\* Parser state and tree builder (src/src/parser/mod.rs).  The builder is
\* rowan's GreenNodeBuilder: parents holds the open nodes, each with the index
\* in children of its first child; children holds the finished elements.
\* ------------------------------------------------------------------------

NoKind == "<none>"

TriviaKinds == {"WHITESPACE", "NEWLINE", "LINE_COMMENT", "BLOCK_COMMENT"}
is_trivia(kind) == kind \in TriviaKinds

IdentLikeKinds == {"IDENT", "TRUE_KW", "FALSE_KW", "NULL_KW", "FOR_KW", "IN_KW",
                   "IF_KW", "ELSE_KW", "ENDIF_KW", "ENDFOR_KW"}
\* is_ident_like that takes IDENT alone.
is_ident_only(kind) == kind = "IDENT"
is_ident_like(kind) == kind \in IdentLikeKinds

IsNode(e) == "ch" \in DOMAIN e
IsToken(e) == "text" \in DOMAIN e

Parser_new(tokens, source) ==
    [tokens |-> tokens, pos |-> 0, parents |-> <<>>, children |-> <<>>,
     errors |-> <<>>, source_len |-> Len(source), hung |-> FALSE]

ParseError_new(message, offset) == [message |-> message, offset |-> offset]

at_end(p) == p.pos >= Len(p.tokens)

peek(p) == IF p.pos < Len(p.tokens) THEN p.tokens[p.pos + 1].kind ELSE NoKind

RECURSIVE non_trivia_from(_, _, _)
non_trivia_from(tokens, i, n) ==
    IF i >= Len(tokens) THEN NoKind
    ELSE IF is_trivia(tokens[i + 1].kind) THEN non_trivia_from(tokens, i + 1, n)
    ELSE IF n = 0 THEN tokens[i + 1].kind
    ELSE non_trivia_from(tokens, i + 1, n - 1)

peek_non_trivia_nth(p, n) == non_trivia_from(p.tokens, p.pos, n)

peek_non_trivia(p) == non_trivia_from(p.tokens, p.pos, 0)

bump(p) ==
    IF p.pos < Len(p.tokens)
    THEN [p EXCEPT !.children = Append(@, p.tokens[p.pos + 1]), !.pos = @ + 1]
    ELSE p

RECURSIVE text_len(_, _)
text_len(tokens, n) == IF n = 0 THEN 0 ELSE Len(tokens[n].text) + text_len(tokens, n - 1)

\* current_offset that counts the current token too.
current_offset_after(p) ==
    IF p.pos < Len(p.tokens) THEN text_len(p.tokens, p.pos + 1) ELSE p.source_len

current_offset(p) ==
    IF p.pos < Len(p.tokens) THEN text_len(p.tokens, p.pos) ELSE p.source_len

push_error(p, message) ==
    [p EXCEPT !.errors = Append(@, ParseError_new(message, current_offset(p)))]

\* eat(kind), and on failure the "expected kind, found ..." error.
expect(p, kind) ==
    IF peek(p) = kind THEN bump(p)
    ELSE push_error(p, <<"expected", kind, peek(p)>>)

RECURSIVE skip_trivia(_)
skip_trivia(p) == IF is_trivia(peek(p)) THEN skip_trivia(bump(p)) ELSE p

start_node(p, kind) ==
    [p EXCEPT !.parents = Append(@, [kind |-> kind, first |-> Len(p.children)])]

finish_node(p) ==
    LET top == Last(p.parents)
        node == [kind |-> top.kind, ch |-> SubSeq(p.children, top.first + 1, Len(p.children))]
    IN [p EXCEPT !.parents = Front(@),
                 !.children = Append(SubSeq(p.children, 1, top.first), node)]

checkpoint(p) == Len(p.children)

start_node_at(p, cp, kind) ==
    [p EXCEPT !.parents = Append(@, [kind |-> kind, first |-> cp])]

\* ------------------------------------------------------------------------
\* Expressions (src/src/parser/expr.rs)
\* ------------------------------------------------------------------------

\* Call(fn, p) is the call fn(p) of the parser function named fn: the parser's
\* functions call one another through it, so that their mutual recursion
\* goes through one recursive operator.
RECURSIVE Call(_, _)

BinaryOps == {"PIPE_PIPE", "AMP_AMP", "EQ_EQ", "BANG_EQ", "LT", "LT_EQ", "GT", "GT_EQ",
              "PLUS", "MINUS", "STAR", "SLASH", "PERCENT"}

\* binary_binding_power with right_bp = left_bp: a level associates to the right.
binary_binding_power_right(kind) ==
    CASE kind = "PIPE_PIPE" -> <<1, 1>>
      [] kind = "AMP_AMP" -> <<3, 3>>
      [] kind \in {"EQ_EQ", "BANG_EQ"} -> <<5, 5>>
      [] kind \in {"LT", "LT_EQ", "GT", "GT_EQ"} -> <<7, 7>>
      [] kind \in {"PLUS", "MINUS"} -> <<9, 9>>
      [] kind \in {"STAR", "SLASH", "PERCENT"} -> <<11, 11>>

\* <<left_bp, right_bp>> of a binary operator.
binary_binding_power(kind) ==
    CASE kind = "PIPE_PIPE" -> <<1, 2>>
      [] kind = "AMP_AMP" -> <<3, 4>>
      [] kind \in {"EQ_EQ", "BANG_EQ"} -> <<5, 6>>
      [] kind \in {"LT", "LT_EQ", "GT", "GT_EQ"} -> <<7, 8>>
      [] kind \in {"PLUS", "MINUS"} -> <<9, 10>>
      [] kind \in {"STAR", "SLASH", "PERCENT"} -> <<11, 12>>

is_for_expr(p) == peek_non_trivia_nth(p, 1) = "FOR_KW"

\* The back edge of a `loop` or `while` of the parser.  The iteration that
\* began in state p ended in state q: when it consumed a token the loop goes
\* on from q; when it consumed none the next iteration would begin in the
\* state this one began in and the loop would never end, which the parser
\* state records as hung.
again(p, q, Loop(_)) == IF q.pos > p.pos THEN Loop(q) ELSE [q EXCEPT !.hung = TRUE]

\* Then(p, Rest) is `p; Rest`: the statements that produce the parser state p
\* run first, and Rest runs on their result.  (TLC evaluates the elements of a
\* tuple from left to right.)
Then(p, Rest(_)) == <<p, Rest(p)>>[2]

parse_paren_expr(p) ==
    Then(Call("parse_expression", skip_trivia(bump(start_node(p, "PAREN_EXPR")))),
         LAMBDA a : finish_node(expect(skip_trivia(a), "PAREN_R")))

RECURSIVE arg_list_loop(_)
arg_list_loop(p0) ==
    Then(skip_trivia(p0), LAMBDA p :
        IF peek(p) = "COMMA"
        THEN LET a == skip_trivia(bump(p)) IN
             IF peek(a) = "PAREN_R" THEN a
             ELSE IF peek(a) = "ELLIPSIS" THEN bump(a)
             ELSE Then(Call("parse_expression", a), LAMBDA b : again(p, b, arg_list_loop))
        ELSE IF peek(p) = "ELLIPSIS" THEN bump(p)
        ELSE p)

parse_function_call(p) ==
    LET a == skip_trivia(bump(start_node(p, "FUNCTION_CALL")))
        b == skip_trivia(expect(a, "PAREN_L"))
        c == start_node(b, "ARG_LIST")
    IN Then(IF peek(c) # "PAREN_R" THEN Then(Call("parse_expression", c), arg_list_loop) ELSE c,
            LAMBDA d : finish_node(expect(skip_trivia(finish_node(d)), "PAREN_R")))

RECURSIVE tuple_loop(_)
tuple_loop(p0) ==
    Then(skip_trivia(p0), LAMBDA p :
        IF peek(p) = "COMMA"
        THEN LET a == skip_trivia(bump(p)) IN
             IF peek(a) = "BRACKET_R" THEN a
             ELSE Then(Call("parse_expression", a), LAMBDA b : again(p, b, tuple_loop))
        ELSE p)

parse_tuple_expr(p) ==
    LET a == skip_trivia(bump(start_node(p, "TUPLE_EXPR")))
    IN Then(IF peek(a) # "BRACKET_R" THEN Then(Call("parse_expression", a), tuple_loop) ELSE a,
            LAMBDA b : finish_node(expect(skip_trivia(b), "BRACKET_R")))

parse_object_elem(p) ==
    LET a == start_node(p, "OBJECT_ELEM")
    IN Then(IF peek(a) = "PAREN_L" THEN Call("parse_paren_expr", a)
            ELSE Call("parse_expression", a), LAMBDA b :
       LET c == skip_trivia(b)
           d == IF peek(c) \in {"EQ", "COLON", "FAT_ARROW"} THEN bump(c)
                ELSE push_error(c, <<"expected '=', ':', or '=>' in object element">>)
       IN Then(Call("parse_expression", skip_trivia(d)), LAMBDA e : finish_node(e)))

RECURSIVE object_loop(_)
object_loop(p0) ==
    Then(p0, LAMBDA p :
        IF peek(p) # "BRACE_R" /\ ~at_end(p)
        THEN Then(parse_object_elem(p), LAMBDA a :
             LET b == skip_trivia(a)
             IN again(p, skip_trivia(IF peek(b) = "COMMA" THEN bump(b) ELSE b), object_loop))
        ELSE p)

parse_object_expr(p) ==
    Then(object_loop(skip_trivia(bump(start_node(p, "OBJECT_EXPR")))),
         LAMBDA a : finish_node(expect(a, "BRACE_R")))

parse_for_intro(p) ==
    LET a == skip_trivia(expect(start_node(p, "FOR_INTRO"), "FOR_KW"))
        b == skip_trivia(expect(a, "IDENT"))
        c == IF peek(b) = "COMMA"
             THEN skip_trivia(expect(skip_trivia(bump(b)), "IDENT"))
             ELSE b
        d == skip_trivia(expect(c, "IN_KW"))
    IN Then(Call("parse_expression", d),
            LAMBDA e : finish_node(expect(skip_trivia(e), "COLON")))

parse_for_cond(p) ==
    IF peek_non_trivia(p) = "IF_KW"
    THEN Then(Call("parse_expression", skip_trivia(bump(start_node(skip_trivia(p), "FOR_COND")))),
              LAMBDA a : finish_node(a))
    ELSE p

parse_for_tuple_expr(p) ==
    Then(Call("parse_for_intro", skip_trivia(bump(start_node(p, "FOR_TUPLE_EXPR")))), LAMBDA a :
    Then(Call("parse_expression", skip_trivia(a)), LAMBDA b :
    Then(Call("parse_for_cond", skip_trivia(b)), LAMBDA c :
    finish_node(expect(skip_trivia(c), "BRACKET_R")))))

parse_for_object_expr(p) ==
    Then(Call("parse_for_intro", skip_trivia(bump(start_node(p, "FOR_OBJECT_EXPR")))), LAMBDA a :
    Then(Call("parse_expression", skip_trivia(a)), LAMBDA b :
    Then(Call("parse_expression", skip_trivia(expect(skip_trivia(b), "FAT_ARROW"))), LAMBDA c :
    LET d == skip_trivia(c)
        e == skip_trivia(IF peek(d) = "ELLIPSIS" THEN bump(d) ELSE d)
    IN Then(Call("parse_for_cond", e), LAMBDA f :
       finish_node(expect(skip_trivia(f), "BRACE_R"))))))

parse_primary_expr(p0) ==
    Then(skip_trivia(p0), LAMBDA p :
    LET k == peek(p) IN
    CASE k \in {"NUMBER", "TRUE_KW", "FALSE_KW", "NULL_KW"} ->
           finish_node(bump(start_node(p, "LITERAL_EXPR")))
      [] k = "IDENT" ->
           IF peek_non_trivia_nth(p, 1) = "PAREN_L" THEN parse_function_call(p)
           ELSE finish_node(bump(start_node(p, "VARIABLE_EXPR")))
      [] k = "QUOTE" -> Call("parse_string_expr", p)
      [] k = "HEREDOC_OPEN" -> Call("parse_heredoc_expr", p)
      [] k = "PAREN_L" -> Call("parse_paren_expr", p)
      [] k = "BRACKET_L" ->
           IF is_for_expr(p) THEN parse_for_tuple_expr(p) ELSE parse_tuple_expr(p)
      [] k = "BRACE_L" ->
           IF is_for_expr(p) THEN parse_for_object_expr(p) ELSE parse_object_expr(p)
      [] OTHER ->
           LET a == start_node(push_error(p, <<"expected expression", k>>), "ERROR")
           IN finish_node(IF ~at_end(a) THEN bump(a) ELSE a))

RECURSIVE splat_body_loop(_)
splat_body_loop(p0) ==
    Then(skip_trivia(p0), LAMBDA p :
        IF peek(p) = "DOT"
        THEN IF peek_non_trivia_nth(p, 1) = "STAR" THEN p
             ELSE LET a == skip_trivia(bump(start_node(p, "ATTR_ACCESS_EXPR")))
                  IN again(p, finish_node(expect(a, "IDENT")), splat_body_loop)
        ELSE IF peek(p) = "BRACKET_L"
        THEN IF peek_non_trivia_nth(p, 1) = "STAR" THEN p
             ELSE Then(Call("parse_expression", skip_trivia(bump(start_node(p, "INDEX_EXPR")))),
                       LAMBDA a : again(p, finish_node(expect(skip_trivia(a), "BRACKET_R")),
                                        splat_body_loop))
        ELSE p)

parse_splat_body(p) ==
    LET has_body == \/ peek_non_trivia(p) = "DOT"
                    \/ /\ peek_non_trivia(p) = "BRACKET_L"
                       /\ peek_non_trivia_nth(p, 1) # "STAR"
    IN IF ~has_body THEN p
       ELSE Then(splat_body_loop(start_node(p, "SPLAT_BODY")), LAMBDA a : finish_node(a))

RECURSIVE postfix_loop(_, _)
postfix_loop(p0, cp) ==
    Then(skip_trivia(p0), LAMBDA p :
        IF peek(p) = "DOT"
        THEN IF peek_non_trivia_nth(p, 1) = "STAR"
             THEN Then(Call("parse_splat_body", bump(bump(start_node_at(p, cp, "ATTR_SPLAT_EXPR")))),
                       LAMBDA a : again(p, finish_node(a), LAMBDA q : postfix_loop(q, cp)))
             ELSE LET a == skip_trivia(bump(start_node_at(p, cp, "ATTR_ACCESS_EXPR")))
                      b == IF peek(a) \in {"IDENT", "NUMBER"} THEN bump(a)
                           ELSE expect(a, "IDENT")
                  IN again(p, finish_node(b), LAMBDA q : postfix_loop(q, cp))
        ELSE IF peek(p) = "BRACKET_L"
        THEN IF peek_non_trivia_nth(p, 1) = "STAR"
             THEN LET a == skip_trivia(bump(start_node_at(p, cp, "INDEX_SPLAT_EXPR")))
                      b == skip_trivia(bump(a))
                  IN Then(Call("parse_splat_body", expect(b, "BRACKET_R")),
                          LAMBDA c : again(p, finish_node(c), LAMBDA q : postfix_loop(q, cp)))
             ELSE Then(Call("parse_expression", skip_trivia(bump(start_node_at(p, cp, "INDEX_EXPR")))),
                       LAMBDA a : again(p, finish_node(expect(skip_trivia(a), "BRACKET_R")),
                                        LAMBDA q : postfix_loop(q, cp)))
        ELSE p)

parse_postfix_expr(p) ==
    Then(parse_primary_expr(p), LAMBDA a : postfix_loop(a, checkpoint(p)))

parse_unary_expr(p) ==
    IF peek(p) \in {"MINUS", "BANG"}
    THEN Then(Call("parse_unary_expr", skip_trivia(bump(start_node(p, "UNARY_EXPR")))),
              LAMBDA a : finish_node(a))
    ELSE parse_postfix_expr(p)

RECURSIVE parse_binary_expr(_, _), binary_loop(_, _, _)
binary_loop(p0, cp, min_bp) ==
    Then(skip_trivia(p0), LAMBDA p :
        LET op == peek(p) IN
        IF op \notin BinaryOps THEN p
        ELSE IF binary_binding_power(op)[1] < min_bp THEN p
        ELSE Then(parse_binary_expr(skip_trivia(bump(start_node_at(p, cp, "BINARY_EXPR"))),
                                    binary_binding_power(op)[2]),
                  LAMBDA a : again(p, finish_node(a), LAMBDA q : binary_loop(q, cp, min_bp))))

parse_binary_expr(p, min_bp) ==
    Then(Call("parse_unary_expr", p), LAMBDA a : binary_loop(a, checkpoint(p), min_bp))

\* parse_conditional_expr with its checkpoint taken after the condition.
parse_conditional_expr_late(p) ==
    Then(parse_binary_expr(p, 0), LAMBDA a0 :
        LET a == skip_trivia(a0) IN
        IF peek(a) = "QUESTION"
        THEN Then(Call("parse_expression",
                       skip_trivia(bump(start_node_at(a, checkpoint(a), "CONDITIONAL_EXPR")))), LAMBDA b :
             Then(Call("parse_expression", skip_trivia(expect(skip_trivia(b), "COLON"))), LAMBDA c :
             finish_node(c)))
        ELSE a)

parse_conditional_expr(p) ==
    Then(parse_binary_expr(p, 0), LAMBDA a0 :
        LET a == skip_trivia(a0) IN
        IF peek(a) = "QUESTION"
        THEN Then(Call("parse_expression",
                       skip_trivia(bump(start_node_at(a, checkpoint(p), "CONDITIONAL_EXPR")))), LAMBDA b :
             Then(Call("parse_expression", skip_trivia(expect(skip_trivia(b), "COLON"))), LAMBDA c :
             finish_node(c)))
        ELSE a)

parse_expression(p) == parse_conditional_expr(p)


\* ------------------------------------------------------------------------
\* Templates (src/src/parser/template.rs)
\* ------------------------------------------------------------------------

parse_template_interpolation(p) ==
    LET a == bump(start_node(p, "TEMPLATE_INTERPOLATION"))
        b == skip_trivia(IF peek(a) = "TILDE" THEN bump(a) ELSE a)
    IN Then(Call("parse_expression", b), LAMBDA c0 :
            LET c == skip_trivia(c0)
            IN finish_node(expect(IF peek(c) = "TILDE" THEN bump(c) ELSE c, "TEMPLATE_CLOSE")))

\* for IDENT (, IDENT)? in expr, after the `for` keyword of a directive.
directive_for(p) ==
    LET a == skip_trivia(expect(skip_trivia(bump(p)), "IDENT"))
        b == IF peek(a) = "COMMA"
             THEN skip_trivia(expect(skip_trivia(bump(a)), "IDENT"))
             ELSE a
    IN Call("parse_expression", skip_trivia(expect(b, "IN_KW")))

parse_template_directive(p) ==
    LET a == bump(start_node(p, "TEMPLATE_DIRECTIVE"))
        b == skip_trivia(IF peek(a) = "TILDE" THEN bump(a) ELSE a)
        k == peek(b)
    IN Then(CASE k = "IF_KW" -> Call("parse_expression", skip_trivia(bump(b)))
              [] k \in {"ELSE_KW", "ENDIF_KW", "ENDFOR_KW"} -> bump(b)
              [] k = "FOR_KW" -> directive_for(b)
              [] OTHER -> push_error(b,
                    <<"expected directive keyword (if, else, endif, for, endfor)">>),
            LAMBDA c0 :
            LET c == skip_trivia(c0)
            IN finish_node(expect(IF peek(c) = "TILDE" THEN bump(c) ELSE c, "TEMPLATE_CLOSE")))

\* The loop of parse_string_expr (close = QUOTE) and of parse_heredoc_expr
\* (close = HEREDOC_ANCHOR): the two differ in the closing token and in the
\* message of the error at end of input.
RECURSIVE template_loop(_, _, _)
template_loop(p0, close, message) ==
    Then(p0, LAMBDA p :
        LET k == peek(p) IN
        CASE k = close -> bump(p)
          [] k = "DOLLAR_OPEN" ->
               Then(parse_template_interpolation(p),
                    LAMBDA a : again(p, a, LAMBDA q : template_loop(q, close, message)))
          [] k = "PERCENT_OPEN" ->
               Then(parse_template_directive(p),
                    LAMBDA a : again(p, a, LAMBDA q : template_loop(q, close, message)))
          [] k = NoKind -> push_error(p, <<message>>)
          [] OTHER -> again(p, bump(p), LAMBDA q : template_loop(q, close, message)))

parse_string_expr(p) ==
    Then(template_loop(expect(start_node(p, "STRING_EXPR"), "QUOTE"),
                       "QUOTE", "unterminated string"),
         LAMBDA a : finish_node(a))

parse_heredoc_expr(p) ==
    Then(template_loop(bump(start_node(p, "HEREDOC_EXPR")),
                       "HEREDOC_ANCHOR", "unterminated heredoc"),
         LAMBDA a : finish_node(a))

\* ------------------------------------------------------------------------
\* Bodies (src/src/parser/body.rs)
\* ------------------------------------------------------------------------

\* Eat whitespace and at most one newline (or one line comment and its newline).
RECURSIVE eat_trailing_newline(_)
eat_trailing_newline(p) ==
    CASE peek(p) = "WHITESPACE" -> eat_trailing_newline(bump(p))
      [] peek(p) = "NEWLINE" -> bump(p)
      [] peek(p) = "LINE_COMMENT" ->
           LET a == bump(p) IN IF peek(a) = "NEWLINE" THEN bump(a) ELSE a
      [] OTHER -> p

RECURSIVE error_recover_loop(_)
error_recover_loop(p0) ==
    Then(p0, LAMBDA p :
        CASE peek(p) = NoKind -> p
          [] peek(p) = "NEWLINE" -> bump(p)
          [] peek(p) = "BRACE_R" -> p
          [] OTHER -> again(p, bump(p), error_recover_loop))

\* error_recover without its ParseError.
error_recover_silent(p) == finish_node(error_recover_loop(start_node(p, "ERROR")))

error_recover(p) ==
    LET a == push_error(p, <<"unexpected token",
                             IF peek(p) = NoKind THEN "ERROR_TOKEN" ELSE peek(p)>>)
    IN finish_node(error_recover_loop(start_node(a, "ERROR")))

parse_attribute(p) ==
    LET a == skip_trivia(bump(start_node(p, "ATTRIBUTE")))
        b == skip_trivia(expect(a, "EQ"))
    IN Then(Call("parse_expression", b), LAMBDA c : finish_node(eat_trailing_newline(c)))

RECURSIVE block_labels(_)
block_labels(p0) ==
    Then(p0, LAMBDA p :
        IF is_ident_like(peek(p))
        THEN again(p, skip_trivia(finish_node(bump(start_node(p, "BLOCK_LABEL")))), block_labels)
        ELSE IF peek(p) = "QUOTE"
        THEN Then(Call("parse_string_expr", start_node(p, "BLOCK_LABEL")),
                  LAMBDA a : again(p, skip_trivia(finish_node(a)), block_labels))
        ELSE p)

parse_block(p) ==
    LET a == skip_trivia(bump(start_node(p, "BLOCK")))
    IN Then(block_labels(a), LAMBDA b :
       Then(Call("parse_body", eat_trailing_newline(expect(b, "BRACE_L"))), LAMBDA c :
       finish_node(eat_trailing_newline(expect(skip_trivia(c), "BRACE_R")))))

\* body_break without the `break` on `}`.
body_break_at_end(p) == at_end(p)

\* The two `break`s of the loop of parse_body, tested after skip_trivia.
body_break(p) == at_end(p) \/ peek(p) = "BRACE_R"

\* The `match` of the loop of parse_body: one attribute, block or error.
body_item(p) ==
    IF is_ident_like(peek(p))
    THEN LET k == peek_non_trivia_nth(p, 1) IN
         IF k = "EQ" THEN parse_attribute(p)
         ELSE IF is_ident_like(k) \/ k \in {"BRACE_L", "QUOTE", "STRING_LIT"}
         THEN parse_block(p)
         ELSE error_recover(p)
    ELSE error_recover(p)

RECURSIVE body_loop(_)
body_loop(p0) ==
    Then(skip_trivia(p0), LAMBDA p :
        IF body_break(p) THEN p ELSE Then(body_item(p), LAMBDA a : again(p, a, body_loop)))

parse_body(p) == Then(body_loop(start_node(p, "BODY")), LAMBDA a : finish_node(a))

Call(fn, p) ==
    CASE fn = "parse_expression" -> parse_expression(p)
      [] fn = "parse_string_expr" -> parse_string_expr(p)
      [] fn = "parse_heredoc_expr" -> parse_heredoc_expr(p)
      [] fn = "parse_body" -> parse_body(p)
      [] fn = "parse_paren_expr" -> parse_paren_expr(p)
      [] fn = "parse_for_intro" -> parse_for_intro(p)
      [] fn = "parse_for_cond" -> parse_for_cond(p)
      [] fn = "parse_splat_body" -> parse_splat_body(p)
      [] fn = "parse_unary_expr" -> parse_unary_expr(p)

\* Parser::parse returns the root green node: the builder's only child once
\* SOURCE_FILE is finished.
builder_finish(p) == p.children[1]

\* The text of a node: its tokens' texts in depth-first order.
RECURSIVE node_text(_)
node_text(e) ==
    IF IsToken(e) THEN e.text
    ELSE Flatten([i \in 1..Len(e.ch) |-> node_text(e.ch[i])])

\* ------------------------------------------------------------------------
\* Formatter (src/src/formatter.rs).  The formatter state is [buf, indent].
\* ------------------------------------------------------------------------

INDENT == <<" ", " ">>

Whitespace == {" ", "\t", "\n", "\r"}

RECURSIVE trim_end(_)
trim_end(q) == IF q # <<>> /\ Last(q) \in Whitespace THEN trim_end(Front(q)) ELSE q

RECURSIVE trim_start(_)
trim_start(q) == IF q # <<>> /\ Head(q) \in Whitespace THEN trim_start(Tail(q)) ELSE q

trim(q) == trim_start(trim_end(q))

\* trim_end_matches('\n') left out.
keep_end_newlines(q) == q

RECURSIVE trim_end_newlines(_)
trim_end_newlines(q) ==
    IF q # <<>> /\ Last(q) = "\n" THEN trim_end_newlines(Front(q)) ELSE q

ends_with(q, suffix) ==
    /\ Len(q) >= Len(suffix)
    /\ SubSeq(q, Len(q) - Len(suffix) + 1, Len(q)) = suffix

Formatter_new == [buf |-> <<>>, indent |-> 0]

write(f, text) == [f EXCEPT !.buf = @ \o text]

newline(f) == [f EXCEPT !.buf = Append(@, "\n")]

RECURSIVE spaces(_)
spaces(n) == IF n <= 0 THEN <<>> ELSE <<" ">> \o spaces(n - 1)

RECURSIVE indent_text(_)
indent_text(n) == IF n = 0 THEN <<>> ELSE INDENT \o indent_text(n - 1)

write_indent(f) == write(f, indent_text(f.indent))

indent_by(f, d) == [f EXCEPT !.indent = @ + d]

is_binary_op(kind) == kind \in BinaryOps

is_trivia_element(e) == IsToken(e) /\ is_trivia(e.kind)

\* for elem in node.children_with_tokens() { acc = Op(acc, elem) }
RECURSIVE for_each(_, _, _)
for_each(Op(_, _), acc, q) ==
    <<acc, IF q = <<>> THEN acc ELSE for_each(Op, Op(acc, Head(q)), Tail(q))>>[2]

\* The same loop with `if is_trivia_element(&elem) { continue; }` at its head.
for_each_non_trivia(Op(_, _), acc, q) ==
    for_each(Op, acc, SelectSeq(q, LAMBDA e : ~is_trivia_element(e)))

node_contains_newline(node) ==
    \E i \in 1..Len(node.ch) : IsToken(node.ch[i]) /\ node.ch[i].kind = "NEWLINE"

RECURSIVE node_contains_newline_recursive(_)
node_contains_newline_recursive(node) ==
    \E i \in 1..Len(node.ch) :
        IF IsToken(node.ch[i]) THEN node.ch[i].kind = "NEWLINE"
        ELSE node_contains_newline_recursive(node.ch[i])

\* Option<T>: None is <<>>, Some(x) is <<x>>.
None == <<>>
Some(x) == <<x>>

RECURSIVE find_attribute_expr_from(_, _, _)
find_attribute_expr_from(ch, i, past_eq) ==
    IF i > Len(ch) THEN None
    ELSE IF IsToken(ch[i]) /\ ch[i].kind = "EQ" THEN find_attribute_expr_from(ch, i + 1, TRUE)
    ELSE IF IsNode(ch[i]) /\ past_eq THEN Some(ch[i])
    ELSE find_attribute_expr_from(ch, i + 1, past_eq)

find_attribute_expr(attr) == find_attribute_expr_from(attr.ch, 1, FALSE)

attribute_has_multiline_value(attr) ==
    LET expr == find_attribute_expr(attr) IN
    IF expr # None THEN node_contains_newline_recursive(expr[1]) ELSE FALSE

RECURSIVE attribute_key_len_from(_, _)
attribute_key_len_from(ch, i) ==
    IF i > Len(ch) THEN 0
    ELSE IF IsToken(ch[i]) /\ is_ident_like(ch[i].kind) THEN Len(ch[i].text)
    ELSE attribute_key_len_from(ch, i + 1)

attribute_key_len(attr) == attribute_key_len_from(attr.ch, 1)

\* Counts the NEWLINE tokens among the trailing NEWLINE/WHITESPACE tokens.
RECURSIVE trailing_newline_count(_, _)
trailing_newline_count(ch, i) ==
    IF i = 0 \/ IsNode(ch[i]) THEN 0
    ELSE IF ch[i].kind = "NEWLINE" THEN 1 + trailing_newline_count(ch, i - 1)
    ELSE IF ch[i].kind = "WHITESPACE" THEN trailing_newline_count(ch, i - 1)
    ELSE 0

node_has_trailing_blank_line(node) == trailing_newline_count(node.ch, Len(node.ch)) >= 2

classify_body_items(node) ==
    for_each(LAMBDA items, e :
        IF IsNode(e)
        THEN IF e.kind = "ATTRIBUTE"
             THEN Append(items, [type |-> "Attribute", node |-> e,
                                 key_len |-> attribute_key_len(e),
                                 multiline_value |-> attribute_has_multiline_value(e)])
                  \o (IF node_has_trailing_blank_line(e)
                      THEN <<[type |-> "BlankLine"]>> ELSE <<>>)
             ELSE IF e.kind = "BLOCK" THEN Append(items, [type |-> "Block", node |-> e])
             ELSE items
        ELSE IF e.kind \in {"LINE_COMMENT", "BLOCK_COMMENT"}
             THEN Append(items, [type |-> "Comment", text |-> e.text])
             ELSE items,
        <<>>, node.ch)

Max(a, b) == IF a >= b THEN a ELSE b

\* Item indices are 0-based as in the code; group_start is an Option.
RECURSIVE alignment_groups_from(_, _, _, _, _)
alignment_groups_from(items, i, groups, group_start, max_key) ==
    LET close == IF group_start # None
                 THEN Append(groups, [start |-> group_start[1], end |-> i,
                                      max_key_len |-> max_key])
                 ELSE groups
    IN IF i = Len(items) THEN close
       ELSE LET item == items[i + 1] IN
            IF item.type = "Attribute"
            THEN IF item.multiline_value
                 THEN alignment_groups_from(items, i + 1, close, None, max_key)
                 ELSE alignment_groups_from(items, i + 1, groups,
                          IF group_start = None THEN Some(i) ELSE group_start,
                          Max(IF group_start = None THEN 0 ELSE max_key, item.key_len))
            ELSE IF item.type = "Comment"
            THEN alignment_groups_from(items, i + 1, groups, group_start, max_key)
            ELSE alignment_groups_from(items, i + 1, close, None, max_key)

compute_alignment_groups(items) == alignment_groups_from(items, 0, <<>>, None, 0)

\* groups.iter().find_map(|g| i in g.start..g.end then Some(g.max_key_len))
RECURSIVE find_group(_, _, _)
find_group(groups, k, i) ==
    IF k > Len(groups) THEN None
    ELSE IF i >= groups[k].start /\ i < groups[k].end THEN Some(groups[k].max_key_len)
    ELSE find_group(groups, k + 1, i)

RECURSIVE format_expr(_, _), format_body(_, _)

tokens_verbatim(f, node) ==
    for_each(LAMBDA a, e : IF IsToken(e) /\ ~is_trivia(e.kind) THEN write(a, e.text) ELSE a,
             f, node.ch)

format_literal(f, node) == tokens_verbatim(f, node)

format_variable(f, node) == tokens_verbatim(f, node)

format_string_expr(f, node) == write(f, node_text(node))

format_heredoc(f, node) == write(f, node_text(node))

format_binary_expr(f, node) ==
    for_each_non_trivia(LAMBDA a, e :
        IF IsNode(e) THEN format_expr(a, e)
        ELSE IF is_binary_op(e.kind) THEN write(write(write(a, <<" ">>), e.text), <<" ">>)
        ELSE a,
        f, node.ch)

format_unary_expr(f, node) ==
    for_each_non_trivia(LAMBDA a, e :
        IF IsToken(e) THEN write(a, e.text) ELSE format_expr(a, e),
        f, node.ch)

format_conditional_expr(f, node) ==
    for_each_non_trivia(LAMBDA a, e :
        IF IsNode(e) THEN format_expr(a, e)
        ELSE IF e.kind = "QUESTION" THEN write(a, <<" ", "?", " ">>)
        ELSE IF e.kind = "COLON" THEN write(a, <<" ", ":", " ">>)
        ELSE a,
        f, node.ch)

format_arg_list_inline(f, node) ==
    for_each_non_trivia(LAMBDA a, e :
        IF IsNode(e) THEN format_expr(a, e)
        ELSE IF e.kind = "COMMA" THEN write(a, <<",", " ">>)
        ELSE IF e.kind = "ELLIPSIS" THEN write(a, <<".", ".", ".">>)
        ELSE a,
        f, node.ch)

\* The accumulator of the multiline loops is [f, first].
format_arg_list_multiline(f, node) ==
    LET r == for_each_non_trivia(LAMBDA a, e :
                 IF IsNode(e)
                 THEN LET b == IF ~a.first THEN newline(write(a.f, <<",">>)) ELSE a.f
                      IN [f |-> format_expr(write_indent(b), e), first |-> FALSE]
                 ELSE IF e.kind = "ELLIPSIS"
                 THEN [a EXCEPT !.f = write(a.f, <<".", ".", ".">>)]
                 ELSE a,
                 [f |-> indent_by(newline(f), 1), first |-> TRUE], node.ch)
    IN Then(r, LAMBDA a : write_indent(indent_by(newline(write(a.f, <<",">>)), -1)))

format_arg_list(f, node) ==
    IF node_contains_newline(node) THEN format_arg_list_multiline(f, node)
    ELSE format_arg_list_inline(f, node)

\* The accumulator is [f, wrote_name].
format_function_call(f, node) ==
    LET r == for_each_non_trivia(LAMBDA a, e :
                 IF IsNode(e)
                 THEN [a EXCEPT !.f = IF e.kind = "ARG_LIST" THEN format_arg_list(a.f, e)
                                      ELSE format_expr(a.f, e)]
                 ELSE IF e.kind = "IDENT" /\ ~a.wrote_name
                 THEN [f |-> write(a.f, e.text), wrote_name |-> TRUE]
                 ELSE IF e.kind = "PAREN_L" THEN [a EXCEPT !.f = write(a.f, <<"(">>)]
                 ELSE IF e.kind = "PAREN_R" THEN [a EXCEPT !.f = write(a.f, <<")">>)]
                 ELSE a,
                 [f |-> f, wrote_name |-> FALSE], node.ch)
    IN Then(r, LAMBDA a : a.f)

format_paren_expr(f, node) ==
    write(for_each_non_trivia(LAMBDA a, e :
              IF IsNode(e) THEN format_expr(a, e)
              ELSE IF e.kind \in {"PAREN_L", "PAREN_R"} THEN a
              ELSE write(a, e.text),
              write(f, <<"(">>), node.ch),
          <<")">>)

format_tuple_inline(f, node) ==
    write(for_each_non_trivia(LAMBDA a, e :
              IF IsNode(e) THEN format_expr(a, e)
              ELSE IF e.kind \in {"BRACKET_L", "BRACKET_R"} THEN a
              ELSE IF e.kind = "COMMA" THEN write(a, <<",", " ">>)
              ELSE write(a, e.text),
              write(f, <<"[">>), node.ch),
          <<"]">>)

format_tuple_multiline(f, node) ==
    LET r == for_each_non_trivia(LAMBDA a, e :
                 IF IsNode(e)
                 THEN LET b == IF ~a.first THEN newline(write(a.f, <<",">>)) ELSE a.f
                      IN [f |-> format_expr(write_indent(b), e), first |-> FALSE]
                 ELSE IF e.kind \in {"BRACKET_L", "BRACKET_R", "COMMA"} THEN a
                 ELSE [a EXCEPT !.f = write(a.f, e.text)],
                 [f |-> indent_by(newline(write(f, <<"[">>)), 1), first |-> TRUE], node.ch)
    IN Then(r, LAMBDA a :
            write(write_indent(indent_by(newline(write(a.f, <<",">>)), -1)), <<"]">>))

format_tuple_expr(f, node) ==
    IF node_contains_newline(node) THEN format_tuple_multiline(f, node)
    ELSE format_tuple_inline(f, node)

object_elems(node) ==
    SelectSeq(node.ch, LAMBDA e : IsNode(e) /\ e.kind = "OBJECT_ELEM")

\* The key is the first node child met before a separator token.
RECURSIVE object_elem_key_len_from(_, _)
object_elem_key_len_from(ch, i) ==
    IF i > Len(ch) THEN 0
    ELSE IF is_trivia_element(ch[i]) THEN object_elem_key_len_from(ch, i + 1)
    ELSE IF IsNode(ch[i]) THEN Len(trim(node_text(ch[i])))
    ELSE IF ch[i].kind \in {"EQ", "COLON", "FAT_ARROW"} THEN 0
    ELSE object_elem_key_len_from(ch, i + 1)

object_elem_key_len(node) == object_elem_key_len_from(node.ch, 1)

format_object_elem_inline(f, node) ==
    for_each_non_trivia(LAMBDA a, e :
        IF IsNode(e) THEN format_expr(a, e)
        ELSE IF e.kind \in {"EQ", "COLON"} THEN write(a, <<" ", "=", " ">>)
        ELSE IF e.kind = "FAT_ARROW" THEN write(a, <<" ", "=", ">", " ">>)
        ELSE a,
        f, node.ch)

format_object_elem_aligned(f, node, max_key_len) ==
    LET padding == spaces(max_key_len - object_elem_key_len(node)) IN
    for_each_non_trivia(LAMBDA a, e :
        IF IsNode(e) THEN format_expr(a, e)
        ELSE IF e.kind \in {"EQ", "COLON"} THEN write(write(a, padding), <<" ", "=", " ">>)
        ELSE IF e.kind = "FAT_ARROW" THEN write(write(a, padding), <<" ", "=", ">", " ">>)
        ELSE a,
        f, node.ch)

format_object_inline(f, node) ==
    LET elems == object_elems(node) IN
    IF elems = <<>> THEN write(f, <<"{", "}">>)
    ELSE LET r == for_each(LAMBDA a, e :
                      [f |-> format_object_elem_inline(
                                 IF ~a.first THEN write(a.f, <<",", " ">>) ELSE a.f, e),
                       first |-> FALSE],
                      [f |-> write(f, <<"{">>), first |-> TRUE], elems)
         IN Then(r, LAMBDA a : write(a.f, <<"}">>))

RECURSIVE max_object_key_len(_)
max_object_key_len(elems) ==
    IF elems = <<>> THEN 0
    ELSE Max(object_elem_key_len(Head(elems)), max_object_key_len(Tail(elems)))

format_object_multiline(f, node) ==
    LET elems == object_elems(node)
        max_key_len == max_object_key_len(elems)
        g == for_each(LAMBDA a, e :
                 newline(format_object_elem_aligned(write_indent(a), e, max_key_len)),
                 indent_by(newline(write(f, <<"{">>)), 1), elems)
    IN Then(g, LAMBDA a : write(write_indent(indent_by(a, -1)), <<"}">>))

format_object_expr(f, node) ==
    IF node_contains_newline(node) THEN format_object_multiline(f, node)
    ELSE format_object_inline(f, node)

format_attr_access(f, node) ==
    for_each_non_trivia(LAMBDA a, e :
        IF IsNode(e) THEN format_expr(a, e)
        ELSE IF e.kind = "DOT" THEN write(a, <<".">>)
        ELSE IF e.kind \in {"IDENT", "NUMBER"} THEN write(a, e.text)
        ELSE a,
        f, node.ch)

format_index_expr(f, node) ==
    for_each_non_trivia(LAMBDA a, e :
        IF IsNode(e) THEN format_expr(a, e)
        ELSE IF e.kind = "BRACKET_L" THEN write(a, <<"[">>)
        ELSE IF e.kind = "BRACKET_R" THEN write(a, <<"]">>)
        ELSE a,
        f, node.ch)

format_splat_body(f, node) ==
    for_each_non_trivia(LAMBDA a, e :
        IF IsNode(e)
        THEN IF e.kind = "ATTR_ACCESS_EXPR" THEN format_attr_access(a, e)
             ELSE IF e.kind = "INDEX_EXPR" THEN format_index_expr(a, e)
             ELSE format_expr(a, e)
        ELSE IF e.kind = "DOT" THEN write(a, <<".">>)
        ELSE IF e.kind = "IDENT" THEN write(a, e.text)
        ELSE IF e.kind = "BRACKET_L" THEN write(a, <<"[">>)
        ELSE IF e.kind = "BRACKET_R" THEN write(a, <<"]">>)
        ELSE a,
        f, node.ch)

format_attr_splat(f, node) ==
    for_each_non_trivia(LAMBDA a, e :
        IF IsNode(e)
        THEN IF e.kind = "SPLAT_BODY" THEN format_splat_body(a, e) ELSE format_expr(a, e)
        ELSE IF e.kind = "DOT" THEN write(a, <<".">>)
        ELSE IF e.kind = "STAR" THEN write(a, <<"*">>)
        ELSE a,
        f, node.ch)

format_index_splat(f, node) ==
    for_each_non_trivia(LAMBDA a, e :
        IF IsNode(e)
        THEN IF e.kind = "SPLAT_BODY" THEN format_splat_body(a, e) ELSE format_expr(a, e)
        ELSE IF e.kind = "BRACKET_L" THEN write(a, <<"[">>)
        ELSE IF e.kind = "BRACKET_R" THEN write(a, <<"]">>)
        ELSE IF e.kind = "STAR" THEN write(a, <<"*">>)
        ELSE a,
        f, node.ch)

format_for_intro(f, node) ==
    for_each_non_trivia(LAMBDA a, e :
        IF IsNode(e) THEN format_expr(a, e)
        ELSE IF e.kind = "FOR_KW" THEN write(a, <<"f", "o", "r", " ">>)
        ELSE IF e.kind = "IN_KW" THEN write(a, <<" ", "i", "n", " ">>)
        ELSE IF e.kind = "IDENT" THEN write(a, e.text)
        ELSE IF e.kind = "COMMA" THEN write(a, <<",", " ">>)
        ELSE IF e.kind = "COLON" THEN write(a, <<" ", ":">>)
        ELSE a,
        f, node.ch)

format_for_cond(f, node) ==
    for_each_non_trivia(LAMBDA a, e : IF IsNode(e) THEN format_expr(a, e) ELSE a,
                        write(f, <<"i", "f", " ">>), node.ch)

format_for_tuple(f, node) ==
    write(for_each_non_trivia(LAMBDA a, e :
              IF IsToken(e) THEN a
              ELSE IF e.kind = "FOR_INTRO" THEN write(format_for_intro(a, e), <<" ">>)
              ELSE IF e.kind = "FOR_COND" THEN format_for_cond(write(a, <<" ">>), e)
              ELSE format_expr(a, e),
              write(f, <<"[">>), node.ch),
          <<"]">>)

format_for_object(f, node) ==
    write(for_each_non_trivia(LAMBDA a, e :
              IF IsToken(e)
              THEN IF e.kind = "FAT_ARROW" THEN write(a, <<" ", "=", ">", " ">>)
                   ELSE IF e.kind = "ELLIPSIS" THEN write(a, <<".", ".", ".">>)
                   ELSE a
              ELSE IF e.kind = "FOR_INTRO" THEN write(format_for_intro(a, e), <<" ">>)
              ELSE IF e.kind = "FOR_COND" THEN format_for_cond(write(a, <<" ">>), e)
              ELSE format_expr(a, e),
              write(f, <<"{">>), node.ch),
          <<"}">>)

format_expr(f, node) ==
    CASE node.kind = "LITERAL_EXPR" -> format_literal(f, node)
      [] node.kind = "STRING_EXPR" -> format_string_expr(f, node)
      [] node.kind = "HEREDOC_EXPR" -> format_heredoc(f, node)
      [] node.kind = "VARIABLE_EXPR" -> format_variable(f, node)
      [] node.kind = "BINARY_EXPR" -> format_binary_expr(f, node)
      [] node.kind = "UNARY_EXPR" -> format_unary_expr(f, node)
      [] node.kind = "CONDITIONAL_EXPR" -> format_conditional_expr(f, node)
      [] node.kind = "FUNCTION_CALL" -> format_function_call(f, node)
      [] node.kind = "PAREN_EXPR" -> format_paren_expr(f, node)
      [] node.kind = "TUPLE_EXPR" -> format_tuple_expr(f, node)
      [] node.kind = "OBJECT_EXPR" -> format_object_expr(f, node)
      [] node.kind = "ATTR_ACCESS_EXPR" -> format_attr_access(f, node)
      [] node.kind = "INDEX_EXPR" -> format_index_expr(f, node)
      [] node.kind = "ATTR_SPLAT_EXPR" -> format_attr_splat(f, node)
      [] node.kind = "INDEX_SPLAT_EXPR" -> format_index_splat(f, node)
      [] node.kind = "FOR_TUPLE_EXPR" -> format_for_tuple(f, node)
      [] node.kind = "FOR_OBJECT_EXPR" -> format_for_object(f, node)
      [] OTHER -> write(f, node_text(node))

\* The key and the trailing comment of an attribute: the accumulator is
\* [key_text, trailing_comment, saw_eq].
attribute_parts(node) ==
    for_each(LAMBDA a, e :
        IF IsNode(e) THEN a
        ELSE IF is_ident_like(e.kind) /\ ~a.saw_eq THEN [a EXCEPT !.key_text = e.text]
        ELSE IF e.kind = "EQ" THEN [a EXCEPT !.saw_eq = TRUE]
        ELSE IF e.kind \in {"LINE_COMMENT", "BLOCK_COMMENT"}
        THEN [a EXCEPT !.trailing_comment = Some(e.text)]
        ELSE a,
        [key_text |-> <<>>, trailing_comment |-> None, saw_eq |-> FALSE], node.ch)

write_trailing_comment(f, trailing_comment) ==
    IF trailing_comment # None
    THEN write(write(f, <<" ">>), trim_end(trailing_comment[1]))
    ELSE f

format_attribute(f, node, align_to) ==
    LET parts == attribute_parts(node)
        a == write(write_indent(f), parts.key_text)
        b == IF align_to # None
             THEN write(a, spaces(align_to[1] - Len(parts.key_text)))
             ELSE a
        expr == find_attribute_expr(node)
    IN Then(write(b, <<" ", "=", " ">>), LAMBDA c :
       Then(IF expr # None THEN format_expr(c, expr[1]) ELSE c, LAMBDA d :
       newline(write_trailing_comment(d, parts.trailing_comment))))

format_block_label(f, node) ==
    LET a == for_each(LAMBDA g, e :
                 IF IsToken(e) THEN g
                 ELSE IF e.kind = "STRING_EXPR" THEN format_string_expr(g, e)
                 ELSE write(g, node_text(e)),
                 f, node.ch)
    IN for_each(LAMBDA g, e :
           IF IsToken(e) /\ is_ident_like(e.kind) THEN write(g, e.text) ELSE g,
           a, node.ch)

\* The accumulator is [block_type, labels, body_node, trailing_comment].
block_parts(node) ==
    for_each(LAMBDA a, e :
        IF IsToken(e)
        THEN IF is_ident_like(e.kind) /\ a.block_type = <<>>
             THEN [a EXCEPT !.block_type = e.text]
             ELSE IF e.kind \in {"LINE_COMMENT", "BLOCK_COMMENT"}
             THEN [a EXCEPT !.trailing_comment = Some(e.text)]
             ELSE a
        ELSE IF e.kind = "BLOCK_LABEL" THEN [a EXCEPT !.labels = Append(@, e)]
        ELSE IF e.kind = "BODY" THEN [a EXCEPT !.body_node = Some(e)]
        ELSE a,
        [block_type |-> <<>>, labels |-> <<>>, body_node |-> None,
         trailing_comment |-> None], node.ch)

format_block(f, node) ==
    LET parts == block_parts(node)
        a == write(write_indent(f), parts.block_type)
    IN Then(for_each(LAMBDA g, l : format_block_label(write(g, <<" ">>), l), a, parts.labels),
            LAMBDA b :
       Then(newline(write(b, <<" ", "{">>)), LAMBDA c :
       Then(IF parts.body_node # None
            THEN Then(format_body(indent_by(c, 1), parts.body_node[1]),
                      LAMBDA d : indent_by(d, -1))
            ELSE c, LAMBDA d :
       newline(write_trailing_comment(write(write_indent(d), <<"}">>),
                                      parts.trailing_comment)))))

\* One turn of the loop of format_body: item i (0-based) after prev_kind.
format_item(f, item, i, groups, prev_kind) ==
    CASE item.type = "Attribute" ->
           format_attribute(IF prev_kind = "Block" THEN newline(f) ELSE f,
                            item.node, find_group(groups, 1, i))
      [] item.type = "Block" ->
           format_block(IF prev_kind \notin {"None", "Comment"} THEN newline(f) ELSE f,
                        item.node)
      [] item.type = "BlankLine" ->
           IF prev_kind # "None" /\ ~ends_with(f.buf, <<"\n", "\n">>) THEN newline(f) ELSE f
      [] item.type = "Comment" ->
           newline(write(write_indent(IF prev_kind \in {"Block", "Attribute"}
                                      THEN newline(f) ELSE f),
                         trim_end(item.text)))

RECURSIVE format_items(_, _, _, _, _)
format_items(f0, items, i, groups, prev_kind) ==
    Then(f0, LAMBDA f :
        IF i = Len(items) THEN f
        ELSE format_items(format_item(f, items[i + 1], i, groups, prev_kind),
                          items, i + 1, groups, items[i + 1].type))

format_body(f, node) ==
    Then(classify_body_items(node), LAMBDA items :
    Then(compute_alignment_groups(items), LAMBDA groups :
    format_items(f, items, 0, groups, "None")))

format_source_file(f, node) ==
    for_each(LAMBDA a, e : IF IsNode(e) /\ e.kind = "BODY" THEN format_body(a, e) ELSE a,
             f, node.ch)

format_node(f, node) ==
    IF node.kind = "SOURCE_FILE" THEN format_source_file(f, node) ELSE format_expr(f, node)

\* format without its early return on parse errors.
format_despite_errors(source, green, errors) ==
    LET f == format_node(Formatter_new, green)
        output == Append(trim_end_newlines(f.buf), "\n")
    IN IF output = source THEN [status |-> "Unchanged", text |-> output]
       ELSE [status |-> "Changed", text |-> output]

\* format, given what parse_file returned for source.
format(source, green, errors) ==
    IF errors # <<>> THEN [status |-> "Skipped", text |-> <<>>]
    ELSE Then(format_node(Formatter_new, green), LAMBDA f :
         LET output == Append(trim_end_newlines(f.buf), "\n")
         IN IF output = source THEN [status |-> "Unchanged", text |-> output]
            ELSE [status |-> "Changed", text |-> output])

\* ------------------------------------------------------------------------
\* The program as a state machine: one run of format_file over a file.
\* The loop of Lexer::tokenize and the loop of parse_body over the top-level
\* items are taken one iteration at a time; the formatting pass is one step;
\* Rerun is the next run of format_file over the file the previous run wrote.
\* ------------------------------------------------------------------------

\* The lines a file is made of.
Items == <<
    <<"a", " ", "=", " ", "1">>,
    <<"b", "b", "b", " ", "=", " ", "2", " ", "+", " ", "3">>,
    <<"}">>,
    <<"b", " ", "{">>,
    <<"#", " ", "c">>,
    <<>>,
    <<"s", " ", "=", " ", "\"", "v", "\"">>,
    <<"x", " ", "=", " ", "[">>,
    <<"]">>,
    <<"<", "<", "E", "\n", "E">>,
    <<"y", " ", "=", " ", "f", "(", "a", ",", "\n", "b", ".", ".", ".", ")">> >>

\* The most lines a file has.
MaxItems == 3

ItemSeqs == UNION {[1..n -> 1..Len(Items)] : n \in 0..MaxItems}

\* The lines joined by "\n".
RECURSIVE JoinItems(_, _)
JoinItems(q, i) ==
    IF i > Len(q) THEN <<>>
    ELSE Items[q[i]] \o (IF i < Len(q) THEN <<"\n">> ELSE <<>>) \o JoinItems(q, i + 1)

\* The pieces a text is made of when it is no sequence of lines: quotes,
\* template openers and closers, a heredoc opener, a backslash, a comment
\* opener and the two bytes of a non-ASCII scalar.
Chunks == <<
    <<"\"">>,
    <<"$", "{">>,
    <<"%", "{">>,
    <<"}">>,
    <<"E">>,
    <<"\n">>,
    <<"<", "<", "E", "\n">>,
    <<"\\">>,
    <<"/", "*">>,
    <<Lead, Cont>> >>

\* The most pieces such a text has.
MaxChunks == 4

ChunkSeqs == UNION {[1..n -> 1..Len(Chunks)] : n \in 0..MaxChunks}

RECURSIVE JoinChunks(_, _)
JoinChunks(q, i) == IF i > Len(q) THEN <<>> ELSE Chunks[q[i]] \o JoinChunks(q, i + 1)

\* The files: lines with or without a final "\n", and texts made of pieces.
Inputs ==
    {JoinItems(q, 1) : q \in ItemSeqs}
        \cup {JoinItems(q, 1) \o <<"\n">> : q \in ItemSeqs}
        \cup {JoinChunks(q, 1) : q \in ChunkSeqs}

NoTree == [kind |-> "NONE", ch |-> <<>>]
NoResult == [status |-> "None", text |-> <<>>]
NoRun == [source |-> <<>>, tokens |-> <<>>, green |-> NoTree, result |-> NoResult]
NoParser == Parser_new(<<>>, <<>>)
NoStatus == "None"

\* writes without the test of check_only.
writes_in_check(res, check) == res.status = "Changed"
\* The match arm and the `if` of format_file that lead to fs::write.
writes(res, check) == res.status = "Changed" /\ ~check

\* file is the text of the file at path; check_only is the argument of
\* format_file and status the FormatStatus it returns.
VARIABLES source, pos, mode_stack, tokens, pc, parser, green, errors, result, pass, first,
          file, check_only, status

vars == <<source, pos, mode_stack, tokens, pc, parser, green, errors, result, pass, first,
          file, check_only, status>>

\* format_file has read the file into source.
Init ==
    /\ file \in Inputs
    /\ check_only \in BOOLEAN
    /\ source = file
    /\ pos = Lexer_new.pos
    /\ mode_stack = Lexer_new.mode_stack
    /\ tokens = <<>>
    /\ pc = "tokenize"
    /\ parser = NoParser
    /\ green = NoTree
    /\ errors = <<>>
    /\ result = NoResult
    /\ pass = 1
    /\ first = NoRun
    /\ status = NoStatus

\* One iteration of the loop of Lexer::tokenize; a panic ends the run.
NextToken ==
    /\ pc = "tokenize"
    /\ pos < Len(source)
    /\ LET r == next_token(source, pos, mode_stack)
       IN IF r.pos = PanicPos
          THEN pc' = "panic" /\ UNCHANGED <<pos, mode_stack, tokens>>
          ELSE /\ pos' = r.pos
               /\ mode_stack' = r.mode_stack
               /\ tokens' = Append(tokens, r.tok)
               /\ pc' = pc
    /\ UNCHANGED <<source, parser, green, errors, result, pass, first,
                   file, check_only, status>>

\* tokenize returns at the end of the text; parse_file makes the parser, and
\* parse_source_file and parse_body open their nodes.
StartParse ==
    /\ pc = "tokenize"
    /\ pos >= Len(source)
    /\ parser' = start_node(start_node(Parser_new(tokens, source), "SOURCE_FILE"), "BODY")
    /\ pc' = "parse"
    /\ UNCHANGED <<source, pos, mode_stack, tokens, green, errors, result, pass, first,
                   file, check_only, status>>

\* One iteration of the loop of parse_body for the body of the file.
ParseItem ==
    /\ pc = "parse"
    /\ LET p == skip_trivia(parser)
       IN /\ ~body_break(p)
          /\ parser' = body_item(p)
    /\ UNCHANGED <<source, pos, mode_stack, tokens, pc, green, errors, result, pass, first,
                   file, check_only, status>>

\* The loop breaks: parse_body and parse_source_file finish their nodes and
\* Parser::parse returns the tree and the errors.
FinishParse ==
    /\ pc = "parse"
    /\ LET p == skip_trivia(parser)
           q == finish_node(finish_node(p))
       IN /\ body_break(p)
          /\ green' = builder_finish(q)
          /\ errors' = q.errors
    /\ parser' = NoParser
    /\ pc' = "parsed"
    /\ UNCHANGED <<source, pos, mode_stack, tokens, result, pass, first,
                   file, check_only, status>>

\* The rest of format: Skipped on errors, else the formatted text.
Format ==
    /\ pc = "parsed"
    /\ result' = format(source, green, errors)
    /\ pc' = "formatted"
    /\ UNCHANGED <<source, pos, mode_stack, tokens, parser, green, errors, pass, first,
                   file, check_only, status>>

\* format_file returns the status without writing.
Return ==
    /\ pc = "formatted"
    /\ ~writes(result, check_only)
    /\ status' = result.status
    /\ pc' = "done"
    /\ UNCHANGED <<source, pos, mode_stack, tokens, parser, green, errors, result, pass,
                   first, file, check_only>>

\* fs::write opens the file: File::create truncates it.
FileCreate ==
    /\ pc = "formatted"
    /\ writes(result, check_only)
    /\ file' = <<>>
    /\ pc' = "write"
    /\ UNCHANGED <<source, pos, mode_stack, tokens, parser, green, errors, result, pass,
                   first, check_only, status>>

\* One write of the loop of write_all: it takes some of the bytes that are
\* left; after the last of them fs::write and format_file return.
FileWrite ==
    /\ pc = "write"
    /\ \E n \in 1..(Len(result.text) - Len(file)) :
           /\ file' = SubSeq(result.text, 1, Len(file) + n)
           /\ IF Len(file) + n = Len(result.text)
              THEN pc' = "done" /\ status' = "Changed"
              ELSE UNCHANGED <<pc, status>>
    /\ UNCHANGED <<source, pos, mode_stack, tokens, parser, green, errors, result, pass,
                   first, check_only>>

\* format_file is run again, with the same check_only, on the file it wrote
\* or left as it was.
Rerun ==
    /\ pc = "done"
    /\ pass = 1
    /\ ~check_only
    /\ status # "Skipped"
    /\ first' = [source |-> source, tokens |-> tokens, green |-> green, result |-> result]
    /\ source' = file
    /\ pos' = Lexer_new.pos
    /\ mode_stack' = Lexer_new.mode_stack
    /\ tokens' = <<>>
    /\ pc' = "tokenize"
    /\ green' = NoTree
    /\ errors' = <<>>
    /\ result' = NoResult
    /\ status' = NoStatus
    /\ pass' = 2
    /\ UNCHANGED <<parser, file, check_only>>

Next ==
    \/ NextToken \/ StartParse \/ ParseItem \/ FinishParse \/ Format
    \/ Return \/ FileCreate \/ FileWrite \/ Rerun

Spec == Init /\ [][Next]_vars

\* ------------------------------------------------------------------------
\* The lexer alone, Lexer::tokenize over more texts: parse_file stops once
\* it has made the parser.
\* ------------------------------------------------------------------------

\* The pieces of the texts: quotes, template openers, braces, heredoc openers
\* with and without an anchor, an anchor, another identifier, a newline, a
\* carriage return, a space, a backslash, a comment opener and a two-byte
\* character.
LexChunks == <<
    <<"\"">>,
    <<"$", "{">>,
    <<"%", "{">>,
    <<"\"", "$", "{">>,
    <<"{">>,
    <<"}">>,
    <<"E">>,
    <<"x">>,
    <<"\n">>,
    <<"\r">>,
    <<" ">>,
    <<"<", "<">>,
    <<"<", "<", "E", "\n">>,
    <<"<", "<", "-", "E", "\n">>,
    <<"\\">>,
    <<"/", "*">>,
    <<Lead, Cont>> >>

\* The most pieces a text of the lexer has.
MaxLexChunks == 4

LexChunkSeqs == UNION {[1..n -> 1..Len(LexChunks)] : n \in 0..MaxLexChunks}

RECURSIVE JoinLexChunks(_, _)
JoinLexChunks(q, i) == IF i > Len(q) THEN <<>> ELSE LexChunks[q[i]] \o JoinLexChunks(q, i + 1)

LexInputs == {JoinLexChunks(q, 1) : q \in LexChunkSeqs}

InitLex ==
    /\ file \in LexInputs
    /\ check_only = FALSE
    /\ source = file
    /\ pos = Lexer_new.pos
    /\ mode_stack = Lexer_new.mode_stack
    /\ tokens = <<>>
    /\ pc = "tokenize"
    /\ parser = NoParser
    /\ green = NoTree
    /\ errors = <<>>
    /\ result = NoResult
    /\ pass = 1
    /\ first = NoRun
    /\ status = NoStatus

NextLex == NextToken \/ StartParse

SpecLex == InitLex /\ [][NextLex]_vars

\* ------------------------------------------------------------------------
\* format_file over files that are one construct of the grammar: keywords as
\* names, chains of operators, bodies of attributes and blocks.
\* ------------------------------------------------------------------------

\* The keywords of lex_ident.
Keywords == <<
    <<"t", "r", "u", "e">>,
    <<"f", "a", "l", "s", "e">>,
    <<"n", "u", "l", "l">>,
    <<"f", "o", "r">>,
    <<"i", "n">>,
    <<"i", "f">>,
    <<"e", "l", "s", "e">>,
    <<"e", "n", "d", "i", "f">>,
    <<"e", "n", "d", "f", "o", "r">> >>

\* `k = 1`, `k k { }` and `k = 1` as the one line of the body of a block.
KeywordAttribute(k) == k \o <<" ", "=", " ", "1">>
KeywordBlock(k) == k \o <<" ">> \o k \o <<" ", "{", " ", "}">>
KeywordNested(k) == <<"b", " ", "{", "\n">> \o KeywordAttribute(k) \o <<"\n", "}">>

KeywordInputs ==
    UNION {{KeywordAttribute(Keywords[i]), KeywordBlock(Keywords[i]),
            KeywordNested(Keywords[i])} : i \in 1..Len(Keywords)}

\* The binary operators, from the lowest level to the highest.
Operators == <<
    <<"|", "|">>, <<"&", "&">>, <<"=", "=">>, <<"!", "=">>,
    <<"<">>, <<"<", "=">>, <<">">>, <<">", "=">>,
    <<"+">>, <<"-">>, <<"*">>, <<"/">>, <<"%">> >>

\* The operands of a chain, in order.
Operands == <<"a", "b", "c", "d">>

\* The most operators a chain has.
MaxOperators == 2

OperatorSeqs == UNION {[1..n -> 1..Len(Operators)] : n \in 1..MaxOperators}

\* a op1 b op2 c ...: the operands from the i-th on, with the operators of q.
RECURSIVE Chain(_, _)
Chain(q, i) ==
    IF i > Len(q) THEN <<Operands[i]>>
    ELSE <<Operands[i], " ">> \o Operators[q[i]] \o <<" ">> \o Chain(q, i + 1)

Attr(expr) == <<"x", " ", "=", " ">> \o expr

\* A unary operator on the first or on the second operand of `a op b`.
UnaryFirst(u, op) == <<u, "a", " ">> \o op \o <<" ", "b">>
UnarySecond(u, op) == <<"a", " ">> \o op \o <<" ", u, "b">>

\* `a op b` as the condition, the first or the second branch of a conditional.
InCondition(op) == <<"a", " ">> \o op \o <<" ", "b", " ", "?", " ", "c", " ", ":", " ", "d">>
InThen(op) == <<"a", " ", "?", " ", "b", " ">> \o op \o <<" ", "c", " ", ":", " ", "d">>
InElse(op) == <<"a", " ", "?", " ", "b", " ", ":", " ", "c", " ">> \o op \o <<" ", "d">>

PrecedenceInputs ==
    {Attr(Chain(q, 1)) : q \in OperatorSeqs}
        \cup UNION {{Attr(UnaryFirst(u, Operators[i])), Attr(UnarySecond(u, Operators[i]))} :
                    u \in {"-", "!"}, i \in 1..Len(Operators)}
        \cup UNION {{Attr(InCondition(Operators[i])), Attr(InThen(Operators[i])),
                     Attr(InElse(Operators[i]))} : i \in 1..Len(Operators)}

\* The pieces between the parentheses of a call: an argument, a comma, a
\* newline and an argument with a newline inside it.
CallPieces == <<
    <<"a">>,
    <<",", " ">>,
    <<"\n">>,
    <<"(", "\n", "b", ")">> >>

\* The most pieces a call has between its parentheses.
MaxCallPieces == 5

CallPieceSeqs == UNION {[1..n -> 1..Len(CallPieces)] : n \in 0..MaxCallPieces}

RECURSIVE JoinCallPieces(_, _)
JoinCallPieces(q, i) == IF i > Len(q) THEN <<>> ELSE CallPieces[q[i]] \o JoinCallPieces(q, i + 1)

\* `y = f(...)`.
CallOf(args) == <<"y", " ", "=", " ", "f", "(">> \o args \o <<")">>

CallInputs == {CallOf(JoinCallPieces(q, 1)) : q \in CallPieceSeqs}

\* The keys of the elements of an object: names, a sum, a string, a
\* parenthesis and an attribute access with blanks in it.
ObjectKeys == <<
    <<"a">>,
    <<"b", "b", "b">>,
    <<"c", "+", "d">>,
    <<"\"", "k", "\"">>,
    <<"(", "e", ")">>,
    <<"f", " ", ".", "g">> >>

\* The separators of key and value, as the file spaces them.
ObjectSeparators == << <<" ", "=", " ">>, <<":">>, <<" ", " ", "=", ">", " ">> >>

\* The most elements an object has.
MaxElems == 2

ObjectElemSeqs ==
    UNION {[1..n -> (1..Len(ObjectKeys)) \X (1..Len(ObjectSeparators))] : n \in 1..MaxElems}

\* The lines of the elements from the i-th on: key, separator, `1`.
RECURSIVE ObjectLines(_, _)
ObjectLines(q, i) ==
    IF i > Len(q) THEN <<>>
    ELSE ObjectKeys[q[i][1]] \o ObjectSeparators[q[i][2]] \o <<"1", "\n">> \o ObjectLines(q, i + 1)

ObjectInputs == {Attr(<<"{", "\n">> \o ObjectLines(q, 1) \o <<"}">>) : q \in ObjectElemSeqs}

\* The lines of a body: an attribute, a block and a blank line.
BodyLines == <<
    <<"a", " ", "=", " ", "1", "\n">>,
    <<"b", " ", "{", "\n", "}", "\n">>,
    <<"\n">> >>

\* The most such lines a body has.
MaxBodyLines == 4

BodyLineSeqs == UNION {[1..n -> 1..Len(BodyLines)] : n \in 0..MaxBodyLines}

RECURSIVE JoinBodyLines(_, _)
JoinBodyLines(q, i) == IF i > Len(q) THEN <<>> ELSE BodyLines[q[i]] \o JoinBodyLines(q, i + 1)

\* The body of the file, and the same lines as the body of a block.
BodyInputs ==
    {JoinBodyLines(q, 1) : q \in BodyLineSeqs}
        \cup {<<"c", " ", "{", "\n">> \o JoinBodyLines(q, 1) \o <<"}", "\n">> : q \in BodyLineSeqs}

SyntaxInputs ==
    KeywordInputs \cup PrecedenceInputs \cup CallInputs \cup ObjectInputs \cup BodyInputs

InitSyntax ==
    /\ file \in SyntaxInputs
    /\ check_only = FALSE
    /\ source = file
    /\ pos = Lexer_new.pos
    /\ mode_stack = Lexer_new.mode_stack
    /\ tokens = <<>>
    /\ pc = "tokenize"
    /\ parser = NoParser
    /\ green = NoTree
    /\ errors = <<>>
    /\ result = NoResult
    /\ pass = 1
    /\ first = NoRun
    /\ status = NoStatus

SpecSyntax == InitSyntax /\ [][Next]_vars

\* ------------------------------------------------------------------------
\* format_file over damaged files: constructs of the grammar, whole and with
\* some of their pieces left out.
\* ------------------------------------------------------------------------

\* The constructs, each as the sequence of its pieces: a call, a tuple, an
\* object, the two splats with their bodies, a block with labels, a string
\* and a heredoc with templates, a conditional with unary operators, the two
\* for expressions, a parenthesis in a chain and a heredoc whose anchor is
\* empty.
Seeds == <<
    << <<"a">>, <<" ", "=", " ">>, <<"f">>, <<"(">>, <<"b">>, <<",", " ">>, <<"c">>, <<".", ".", ".">>, <<")">>, <<"\n">> >>,
    << <<"a">>, <<" ", "=", " ">>, <<"[">>, <<"1">>, <<",", " ">>, <<"2">>, <<"]">>, <<"\n">> >>,
    << <<"a">>, <<" ", "=", " ">>, <<"{">>, <<"k">>, <<" ", "=", " ">>, <<"1">>, <<",", " ">>, <<"j">>, <<" ", ":", " ">>, <<"2">>, <<"}">> >>,
    << <<"a">>, <<" ", "=", " ">>, <<"b">>, <<".">>, <<"*">>, <<".">>, <<"c">>, <<"[">>, <<"0">>, <<"]">> >>,
    << <<"a">>, <<" ", "=", " ">>, <<"b">>, <<"[">>, <<"*">>, <<"]">>, <<".">>, <<"c">> >>,
    << <<"b">>, <<" ">>, <<"c">>, <<" ">>, <<"\"">>, <<"d">>, <<"\"">>, <<" ", "{">>, <<"\n">>, <<"a">>, <<" ", "=", " ">>, <<"1">>, <<"\n">>, <<"}">> >>,
    << <<"a">>, <<" ", "=", " ">>, <<"\"">>, <<"s">>, <<"$", "{">>, <<"b">>, <<"}">>, <<"%", "{">>, <<"i", "f", " ">>, <<"c">>, <<"}">>, <<"\"">> >>,
    << <<"a">>, <<" ", "=", " ">>, <<"<", "<", "E", "\n">>, <<"t">>, <<"$", "{">>, <<"b">>, <<"}">>, <<"\n">>, <<"E">>, <<"\n">> >>,
    << <<"a">>, <<" ", "=", " ">>, <<"b">>, <<" ", "?", " ">>, <<"-">>, <<"c">>, <<" ", ":", " ">>, <<"!">>, <<"d">> >>,
    << <<"a">>, <<" ", "=", " ">>, <<"[">>, <<"f", "o", "r", " ">>, <<"k">>, <<",", " ">>, <<"v">>, <<" ", "i", "n", " ">>, <<"m">>, <<" ", ":", " ">>, <<"v">>, <<" ", "i", "f", " ">>, <<"c">>, <<"]">> >>,
    << <<"a">>, <<" ", "=", " ">>, <<"{">>, <<"f", "o", "r", " ">>, <<"k">>, <<" ", "i", "n", " ">>, <<"m">>, <<" ", ":", " ">>, <<"k">>, <<" ", "=", ">", " ">>, <<"v">>, <<".", ".", ".">>, <<"}">> >>,
    << <<"a">>, <<" ", "=", " ">>, <<"(">>, <<"b">>, <<" ", "+", " ">>, <<"c">>, <<")">>, <<" ", "*", " ">>, <<"d">> >>,
    << <<"a">>, <<" ", "=", " ">>, <<"<", "<">>, <<"\n">>, <<"t">>, <<"\n">>, <<"\n">> >> >>

\* The most pieces a file leaves out.
MaxDrop == 2

\* The pieces of seed from the i-th on that are not in drop, joined.
RECURSIVE Keep(_, _, _)
Keep(seed, drop, i) ==
    IF i > Len(seed) THEN <<>>
    ELSE (IF i \in drop THEN <<>> ELSE seed[i]) \o Keep(seed, drop, i + 1)

Drops(seed) == {d \in SUBSET (1..Len(seed)) : Cardinality(d) <= MaxDrop}

DamagedInputs == UNION {{Keep(Seeds[k], d, 1) : d \in Drops(Seeds[k])} : k \in 1..Len(Seeds)}

InitDamaged ==
    /\ file \in DamagedInputs
    /\ check_only = FALSE
    /\ source = file
    /\ pos = Lexer_new.pos
    /\ mode_stack = Lexer_new.mode_stack
    /\ tokens = <<>>
    /\ pc = "tokenize"
    /\ parser = NoParser
    /\ green = NoTree
    /\ errors = <<>>
    /\ result = NoResult
    /\ pass = 1
    /\ first = NoRun
    /\ status = NoStatus

SpecDamaged == InitDamaged /\ [][Next]_vars

\* ------------------------------------------------------------------------
\* The lexer alone over texts of digits, points, exponent markers and signs.
\* ------------------------------------------------------------------------

NumberChunks == << <<"1">>, <<".">>, <<"e">>, <<"E">>, <<"+">>, <<"-">>, <<" ">> >>

\* The most pieces such a text has.
MaxNumberChunks == 5

NumberChunkSeqs == UNION {[1..n -> 1..Len(NumberChunks)] : n \in 0..MaxNumberChunks}

RECURSIVE JoinNumberChunks(_, _)
JoinNumberChunks(q, i) ==
    IF i > Len(q) THEN <<>> ELSE NumberChunks[q[i]] \o JoinNumberChunks(q, i + 1)

NumberInputs == {JoinNumberChunks(q, 1) : q \in NumberChunkSeqs}

InitNumber ==
    /\ file \in NumberInputs
    /\ check_only = FALSE
    /\ source = file
    /\ pos = Lexer_new.pos
    /\ mode_stack = Lexer_new.mode_stack
    /\ tokens = <<>>
    /\ pc = "tokenize"
    /\ parser = NoParser
    /\ green = NoTree
    /\ errors = <<>>
    /\ result = NoResult
    /\ pass = 1
    /\ first = NoRun
    /\ status = NoStatus

SpecNumber == InitNumber /\ [][NextLex]_vars

\* ------------------------------------------------------------------------
\* Properties
\* ------------------------------------------------------------------------

Parsed == pc \in {"parsed", "formatted"}
Formatted == pc = "formatted"
Produced == Formatted /\ result.status # "Skipped"

\* The texts of a sequence of tokens, concatenated.
token_texts(toks) == Flatten([i \in 1..Len(toks) |-> toks[i].text])

\* The texts of the tokens of toks whose kind is in kinds, in order.
texts_of(toks, kinds) ==
    LET keep == SelectSeq(toks, LAMBDA t : t.kind \in kinds)
    IN [i \in 1..Len(keep) |-> keep[i].text]

\* The first position at or after from where pat occurs in out, or 0.
find_from(pat, out, from) ==
    LET at == {k \in from..(Len(out) - Len(pat) + 1) : SubSeq(out, k, k + Len(pat) - 1) = pat}
    IN IF at = {} THEN 0 ELSE CHOOSE k \in at : \A j \in at : k <= j

\* The texts occur in out one after the other, in their order.
RECURSIVE InOrder(_, _, _)
InOrder(texts, out, from) ==
    IF texts = <<>> THEN TRUE
    ELSE LET k == find_from(Head(texts), out, from)
         IN k # 0 /\ InOrder(Tail(texts), out, k + Len(Head(texts)))

\* The texts of the STRING_EXPR and HEREDOC_EXPR nodes of a tree, in order.
RECURSIVE string_texts(_)
string_texts(e) ==
    IF IsToken(e) THEN <<>>
    ELSE (IF e.kind \in {"STRING_EXPR", "HEREDOC_EXPR"} THEN <<node_text(e)>> ELSE <<>>)
         \o Flatten([i \in 1..Len(e.ch) |-> string_texts(e.ch[i])])

\* The BODY nodes of a tree.
RECURSIVE Bodies(_)
Bodies(e) ==
    IF IsToken(e) THEN {}
    ELSE (IF e.kind = "BODY" THEN {e} ELSE {})
         \cup UNION {Bodies(e.ch[i]) : i \in 1..Len(e.ch)}

RECURSIVE trim_blank_end(_)
trim_blank_end(q) == IF q # <<>> /\ Last(q) \in Blank THEN trim_blank_end(Front(q)) ELSE q

\* The attribute is one line of text: its only newline is the one that ends it.
SingleLine(attr) ==
    LET t == trim_blank_end(node_text(attr))
    IN /\ t # <<>>
       /\ Last(t) = "\n"
       /\ \A i \in 1..(Len(t) - 1) : t[i] # "\n"

\* The column of the `=` of an attribute, counted from the start of its key.
RECURSIVE EqColumn(_, _)
EqColumn(ch, i) ==
    IF i > Len(ch) THEN 0
    ELSE IF IsToken(ch[i]) /\ ch[i].kind = "EQ" THEN 0
    ELSE Len(node_text(ch[i])) + EqColumn(ch, i + 1)

\* Attributes i < j of a body with nothing but indentation between them.
NextAttribute(body, i, j) ==
    /\ i < j
    /\ IsNode(body.ch[i]) /\ body.ch[i].kind = "ATTRIBUTE"
    /\ IsNode(body.ch[j]) /\ body.ch[j].kind = "ATTRIBUTE"
    /\ \A k \in (i + 1)..(j - 1) : IsToken(body.ch[k]) /\ body.ch[k].kind = "WHITESPACE"

Aligned(body) ==
    \A i, j \in 1..Len(body.ch) :
        (NextAttribute(body, i, j) /\ SingleLine(body.ch[i]) /\ SingleLine(body.ch[j]))
            => EqColumn(body.ch[i].ch, 1) = EqColumn(body.ch[j].ch, 1)

SignificantKinds == {"IDENT", "NUMBER", "TRUE_KW", "FALSE_KW", "NULL_KW",
                     "QUOTE", "STRING_FRAGMENT", "ESCAPE_SEQUENCE",
                     "HEREDOC_OPEN", "HEREDOC_CONTENT", "HEREDOC_ANCHOR"}

CommentKinds == {"LINE_COMMENT", "BLOCK_COMMENT"}

comment_texts(toks) ==
    LET c == texts_of(toks, CommentKinds) IN [i \in 1..Len(c) |-> trim_end(c[i])]

\* C1: after parse_file, the token texts of the tree, concatenated in
\* depth-first order, are the input text.
ParseLossless == Parsed => node_text(green) = source

\* C2: the texts of the tokens made so far, concatenated, are the text up to
\* the lexer's position, and once tokenize has returned they are the whole
\* input text.
LexerLossless ==
    /\ token_texts(tokens) = SubSeq(source, 1, pos)
    /\ pc # "tokenize" => token_texts(tokens) = source

\* tokenize has returned for a text with a heredoc whose content is a
\* two-byte character followed by an interpolation.
LexerLosslessWitness ==
    /\ pc = "parse"
    /\ \E i \in 1..Len(tokens) : tokens[i].kind = "DOLLAR_OPEN"
    /\ \E i \in 1..Len(tokens) :
           tokens[i].kind = "HEREDOC_CONTENT" /\ tokens[i].text = <<Lead, Cont>>

\* C3: format returns Skipped exactly when parse_file returned errors, and
\* then it returns no text.
SkippedIffErrors ==
    Formatted => /\ (result.status = "Skipped") <=> (errors # <<>>)
                 /\ errors # <<>> => result.text = <<>>

\* format has returned for a text with tokens whose parse had errors.
SkippedIffErrorsWitness ==
    Formatted /\ errors # <<>> /\ tokens # <<>> /\ result.status = "Skipped"

\* C4: when format returns a text, the identifier, number, keyword-literal,
\* string and heredoc tokens of the input occur in it, in their order.
FormatKeepsCode ==
    Produced => InOrder(texts_of(tokens, SignificantKinds), result.text, 1)

\* C5: format of a text that format returned is Unchanged.
FormatIdempotent == (pass = 2 /\ Formatted) => result.status = "Unchanged"

\* C6: the text format returns for an input that parsed without errors
\* parses without errors.
FormatKeepsParse == (pass = 2 /\ Parsed) => errors = <<>>

\* C7: the texts of the STRING_EXPR and HEREDOC_EXPR nodes of the text that
\* format returns are those of the input, in the same order.
StringFidelity ==
    (pass = 2 /\ Parsed) => string_texts(green) = string_texts(first.green)

\* C8: in the text format returns, attributes of one body that follow one
\* another, each on one line, have their `=` at the same column.
AlignmentConsistent ==
    (pass = 2 /\ Parsed /\ errors = <<>>) => \A b \in Bodies(green) : Aligned(b)

\* C9: a text that format returns ends with one "\n" and not with two.
OneTrailingNewline ==
    Produced => /\ Len(result.text) >= 1
                /\ Last(result.text) = "\n"
                /\ Len(result.text) >= 2 => result.text[Len(result.text) - 1] # "\n"

\* format has returned a text for an input that ends with two newlines.
OneTrailingNewlineWitness ==
    /\ Produced
    /\ pass = 1
    /\ Len(source) >= 3
    /\ source[Len(source)] = "\n"
    /\ source[Len(source) - 1] = "\n"

\* C10: when format returns a text, the comments of the input, less their
\* trailing whitespace, occur in it, in their order.
CommentsRetained == Produced => InOrder(comment_texts(tokens), result.text, 1)

\* The tree has an ERROR node.
RECURSIVE has_error_node(_)
has_error_node(e) ==
    IsNode(e) /\ (e.kind = "ERROR" \/ \E i \in 1..Len(e.ch) : has_error_node(e.ch[i]))

\* C11: when the tree parse_file returns has an ERROR node, the error list
\* is not empty, and format returns Skipped.
ErrorNodeHasError ==
    /\ (Parsed /\ has_error_node(green)) => errors # <<>>
    /\ (Formatted /\ has_error_node(green)) => result.status = "Skipped"

\* format has returned for a tree with an ERROR node inside an expression.
ErrorNodeHasErrorWitness ==
    /\ Formatted
    /\ has_error_node(green)
    /\ \E i \in 1..Len(errors) : errors[i].message[1] = "expected expression"

\* C12: format_file changes the file only when format returned Changed and
\* check_only is false, and then it holds the text format returned; the
\* status it returns is the one of the result of format, whatever check_only.
FormatFileFrame ==
    /\ file # source => (result.status = "Changed" /\ ~check_only /\ pc \in {"write", "done"})
    /\ pc = "done" => status = result.status
    /\ (pc = "done" /\ result.status = "Changed" /\ ~check_only) => file = result.text

\* format_file has returned Changed with check_only set.
FormatFileFrameWitness ==
    pc = "done" /\ check_only /\ status = "Changed" /\ file = source /\ file # result.text

\* C13: while format_file overwrites the file, the file holds the whole old
\* text or the whole new text.
AtomicOverwrite == pc = "write" => file \in {source, result.text}

\* The characters that start a token of lex_normal other than ERROR_TOKEN,
\* whatever follows them.
TokenStart ==
    Blank \cup Digit \cup IdentStart
        \cup {"\n", "#", "/", "\"", "<", "=", "!", ">", "+", "-", "*", "%", "(", ")",
              "{", "}", "[", "]", ",", ".", ":", "?", "~"}

\* A text of one character.
OneChar(text) == Len(text) = 1 \/ text = <<Lead, Cont>>

\* The lexer's state is sound: it has not panicked, the mode stack is not
\* empty, no brace_depth is below 0, pos is a character boundary of the text,
\* and each ERROR_TOKEN is one character.
LexerSound ==
    /\ pc # "panic"
    /\ mode_stack # <<>>
    /\ \A i \in 1..Len(mode_stack) : mode_stack[i].brace_depth >= 0
    /\ pos >= 0 /\ pos <= Len(source)
    /\ pos < Len(source) => source[pos + 1] # Cont
    /\ pc # "tokenize" => pos = Len(source)
    /\ \A i \in 1..Len(tokens) : tokens[i].kind = "ERROR_TOKEN" => OneChar(tokens[i].text)

\* A step of the lexer at a character that starts no token, outside strings
\* and heredocs, makes an ERROR_TOKEN of that character.
ErrorTokenStep ==
    (/\ pc = "tokenize"
     /\ pos < Len(source)
     /\ current_mode(mode_stack) \in {"Normal", "Interpolation", "Directive"}
     /\ peek_char(source, pos) \notin TokenStart)
    => /\ tokens' = Append(tokens, [kind |-> "ERROR_TOKEN",
                                    text |-> SubSeq(source, pos + 1, pos')])
       /\ pos' = pos + len_utf8(peek_char(source, pos))

\* C14: the lexer never fails: it does not panic, reads no empty mode stack,
\* takes no brace_depth below 0, keeps pos inside the text, and turns each
\* character that starts no token into an ERROR_TOKEN of that one character.
LexerNeverFails == [](LexerSound) /\ [][ErrorTokenStep]_vars

\* tokenize has returned for a text with a two-byte character outside a
\* string and with a `}` that closes nothing.
LexerNeverFailsWitness ==
    /\ pc = "parse"
    /\ \E i \in 1..Len(tokens) :
           tokens[i].kind = "ERROR_TOKEN" /\ tokens[i].text = <<Lead, Cont>>
    /\ \E i \in 1..Len(tokens) : tokens[i].kind = "BRACE_R"

\* The byte offset at which token i starts: the length of the texts before it.
token_offset(toks, i) == text_len(toks, i - 1)

\* C15: each token has a text that is not empty, so each token starts at a
\* larger byte offset than the token before it.
TokensMonotonic ==
    /\ \A i \in 1..Len(tokens) : tokens[i].text # <<>>
    /\ \A i \in 2..Len(tokens) : token_offset(tokens, i) > token_offset(tokens, i - 1)

\* The modes and the numbers of unmatched `{` that the kinds of the tokens
\* tell: st is the stack of <<mode, unmatched>> before token i.
RECURSIVE frames_of(_, _, _)
frames_of(toks, i, st) ==
    IF i > Len(toks) THEN st
    ELSE LET k == toks[i].kind
             top == Last(st)
             in_template == top[1] \in {"Interpolation", "Directive"}
         IN frames_of(toks, i + 1,
                CASE k = "QUOTE" ->
                       IF top[1] = "StringTemplate" THEN Front(st)
                       ELSE Append(st, <<"StringTemplate", 0>>)
                  [] k = "DOLLAR_OPEN" -> Append(st, <<"Interpolation", 0>>)
                  [] k = "PERCENT_OPEN" -> Append(st, <<"Directive", 0>>)
                  [] k = "HEREDOC_OPEN" -> Append(st, <<"HeredocTemplate", 0>>)
                  [] k \in {"HEREDOC_ANCHOR", "TEMPLATE_CLOSE"} -> Front(st)
                  [] k = "BRACE_L" /\ in_template -> Append(Front(st), <<top[1], top[2] + 1>>)
                  [] k = "BRACE_R" /\ in_template -> Append(Front(st), <<top[1], top[2] - 1>>)
                  [] OTHER -> st)

\* Each frame's brace_depth is the number of `{` lexed in it that no `}` has
\* matched yet.
DepthIsUnmatched ==
    pc # "panic" =>
        [i \in 1..Len(mode_stack) |-> <<mode_stack[i].mode, mode_stack[i].brace_depth>>]
            = frames_of(tokens, 1, <<<<"Normal", 0>>>>)

\* A step of the lexer at a brace outside strings and heredocs.
BraceStep ==
    (/\ pc = "tokenize"
     /\ pos < Len(source)
     /\ current_mode(mode_stack) \in {"Normal", "Interpolation", "Directive"}
     /\ peek_char(source, pos) \in {"{", "}"})
    => LET top == Last(mode_stack)
           kind == Last(tokens').kind
           deeper(d) == [mode_stack EXCEPT ![Len(mode_stack)].brace_depth = @ + d]
       IN /\ Len(tokens') = Len(tokens) + 1
          /\ IF top.mode = "Normal"
             THEN /\ kind = (IF peek_char(source, pos) = "{" THEN "BRACE_L" ELSE "BRACE_R")
                  /\ mode_stack' = mode_stack
             ELSE IF peek_char(source, pos) = "{"
             THEN kind = "BRACE_L" /\ mode_stack' = deeper(1)
             ELSE IF top.brace_depth = 0
             THEN kind = "TEMPLATE_CLOSE" /\ mode_stack' = Front(mode_stack)
             ELSE kind = "BRACE_R" /\ mode_stack' = deeper(-1)

\* C16: in an interpolation or directive a `}` is TEMPLATE_CLOSE and pops the
\* frame exactly when every `{` lexed in the frame has been matched; else it
\* is BRACE_R and takes one from brace_depth, and each `{` adds one.  In
\* Normal mode `}` is BRACE_R and nothing is popped.
BracesInTemplates == [](DepthIsUnmatched) /\ [][BraceStep]_vars

\* An interpolation has been closed after a matched pair of braces in it.
BracesInTemplatesWitness ==
    \E i \in 1..(Len(tokens) - 2) :
        /\ tokens[i].kind = "BRACE_L"
        /\ tokens[i + 1].kind = "BRACE_R"
        /\ tokens[i + 2].kind = "TEMPLATE_CLOSE"

\* The anchor in the text of a heredoc opener: what stands between `<<` or
\* `<<-` and the newline that ends the text.
opener_indent(t) == Len(t) >= 3 /\ t[3] = "-"
opener_anchor(t) ==
    LET from == IF opener_indent(t) THEN 4 ELSE 3
        to == IF Len(t) >= 2 /\ t[Len(t) - 1] = "\r" THEN Len(t) - 2 ELSE Len(t) - 1
    IN SubSeq(t, from, to)

\* t is `<<` or `<<-`, an identifier and a newline.
IsHeredocOpener(t) ==
    /\ Len(t) >= 4
    /\ SubSeq(t, 1, 2) = <<"<", "<">>
    /\ Last(t) = "\n"
    /\ opener_anchor(t) # <<>>
    /\ \A i \in 1..Len(opener_anchor(t)) : opener_anchor(t)[i] \in AnchorChar

\* A step of the lexer that makes a HEREDOC_OPEN token pushes a frame with
\* the opener's anchor and indent; no other step pushes a HeredocTemplate frame.
HeredocOpenStep ==
    (pc = "tokenize" /\ Len(tokens') = Len(tokens) + 1)
    => LET t == Last(tokens')
       IN IF t.kind = "HEREDOC_OPEN"
          THEN /\ IsHeredocOpener(t.text)
               /\ mode_stack' = Append(mode_stack,
                                       ModeEntry_heredoc(opener_anchor(t.text),
                                                         opener_indent(t.text)))
          ELSE ~(/\ Len(mode_stack') > Len(mode_stack)
                 /\ Last(mode_stack').mode = "HeredocTemplate")

\* C17: a HEREDOC_OPEN token is `<<` or `<<-`, an identifier and a newline,
\* and the frame pushed with it has that identifier as anchor and indent
\* exactly for `<<-`; nothing else pushes a HeredocTemplate frame.
HeredocOpenWellFormed ==
    /\ [](\A i \in 1..Len(tokens) :
              tokens[i].kind = "HEREDOC_OPEN" => IsHeredocOpener(tokens[i].text))
    /\ [][HeredocOpenStep]_vars

\* The first position at or after p that holds no space or tab.
after_indent(s, p) ==
    CHOOSE k \in p..Len(s) :
        /\ k = Len(s) \/ s[k + 1] \notin {" ", "\t"}
        /\ \A j \in p..(k - 1) : s[j + 1] \in {" ", "\t"}

\* Position p of s is the start of a line that is the anchor of the frame
\* only, after spaces or tabs if the frame is indented, and that a newline
\* ("\n" or "\r\n") or the end of the text ends.
AtAnchorLine(s, p, entry) ==
    LET c == IF entry.heredoc_indent THEN after_indent(s, p) ELSE p
        e == c + Len(entry.heredoc_anchor)
    IN /\ p = 0 \/ s[p] = "\n"
       /\ e <= Len(s)
       /\ SubSeq(s, c + 1, e) = entry.heredoc_anchor
       /\ \/ e = Len(s)
          \/ s[e + 1] = "\n"
          \/ e + 2 <= Len(s) /\ s[e + 1] = "\r" /\ s[e + 2] = "\n"

\* A step of the lexer: in a heredoc it makes HEREDOC_ANCHOR, of the indent
\* and the anchor, and pops the frame exactly at an anchor line, and no
\* HEREDOC_CONTENT runs over the start of an anchor line; outside a heredoc
\* it makes no HEREDOC_ANCHOR.
HeredocCloseStep ==
    (pc = "tokenize" /\ Len(tokens') = Len(tokens) + 1)
    => LET top == Last(mode_stack)
           t == Last(tokens')
       IN IF top.mode # "HeredocTemplate" THEN t.kind # "HEREDOC_ANCHOR"
          ELSE IF AtAnchorLine(source, pos, top)
          THEN /\ t.kind = "HEREDOC_ANCHOR"
               /\ t.text = SubSeq(source, pos + 1,
                                  (IF top.heredoc_indent THEN after_indent(source, pos) ELSE pos)
                                      + Len(top.heredoc_anchor))
               /\ mode_stack' = Front(mode_stack)
          ELSE /\ t.kind # "HEREDOC_ANCHOR"
               /\ t.kind = "HEREDOC_CONTENT" =>
                      \A p \in (pos + 1)..(pos' - 1) : ~AtAnchorLine(source, p, top)

\* C18: in a heredoc the lexer makes HEREDOC_ANCHOR and pops the frame exactly
\* at the start of a line that is the anchor only (after spaces or tabs for
\* `<<-`) and that a newline or the end of the text ends; the token's text is
\* the indent and the anchor; anything else stays HEREDOC_CONTENT.
HeredocCloseExact == [][HeredocCloseStep]_vars

\* tokenize returned with a string, heredoc, interpolation or directive open.
Unterminated == Len(mode_stack) > 1

\* C19: when a string, a heredoc, an interpolation or a directive is open at
\* the end of the text, the tokens still cover the text, parse_file returns
\* errors and format returns Skipped.
UnterminatedIsError ==
    /\ (pc # "tokenize" /\ Unterminated) => token_texts(tokens) = source
    /\ (Parsed /\ Unterminated) => errors # <<>>
    /\ (Formatted /\ Unterminated) => result.status = "Skipped"

\* The index of the last token of the junk that starts at token i: the next
\* NEWLINE, or the token before the next BRACE_R, or the last token.
RECURSIVE junk_end(_, _)
junk_end(toks, i) ==
    IF i > Len(toks) THEN Len(toks)
    ELSE IF toks[i].kind = "NEWLINE" THEN i
    ELSE IF toks[i].kind = "BRACE_R" THEN i - 1
    ELSE junk_end(toks, i + 1)

\* A turn of the loop of parse_body for the file's body at a token that
\* cannot start a body item: one more error, at the token's offset; one more
\* child, an ERROR node of the junk; and the loop goes on after the junk.
ErrorRecoveryStep ==
    LET p == skip_trivia(parser)
        e == junk_end(tokens, p.pos + 1)
    IN (pc = "parse" /\ ~at_end(p) /\ ~is_ident_like(peek(p)))
       => /\ pc' = "parse"
          /\ Len(parser'.errors) = Len(p.errors) + 1
          /\ SubSeq(parser'.errors, 1, Len(p.errors)) = p.errors
          /\ Last(parser'.errors).offset = text_len(tokens, p.pos)
          /\ parser'.children =
                 Append(p.children, [kind |-> "ERROR", ch |-> SubSeq(tokens, p.pos + 1, e)])
          /\ parser'.pos = e

\* The lines that are attributes, and the lines of tokens that neither start
\* a body item nor continue an expression.
AttributeItems == {1, 7}
JunkItems == {3, 9}

\* The kinds of the nodes among the children of a node.
node_kinds(e) ==
    LET nodes == SelectSeq(e.ch, IsNode) IN [i \in 1..Len(nodes) |-> nodes[i].kind]

\* The text is an attribute, a line of junk and an attribute.
JunkBetweenAttributes ==
    \E a, b \in AttributeItems, j \in JunkItems : first.source = <<>> /\ source = JoinItems(<<a, j, b>>, 1)

\* C20: at a token that cannot start a body item parse_body records one
\* error at its offset, puts the tokens up to and with the next NEWLINE (or up
\* to the next `}`) into one ERROR node and goes on; so for an attribute, a
\* line of junk and an attribute the nodes of the body are ATTRIBUTE, ERROR,
\* ATTRIBUTE and the tree's text is the input.
ErrorRecoveryResumes ==
    /\ [][ErrorRecoveryStep]_vars
    /\ []((Parsed /\ JunkBetweenAttributes)
              => /\ node_kinds(green.ch[1]) = <<"ATTRIBUTE", "ERROR", "ATTRIBUTE">>
                 /\ node_text(green) = source)

\* The nodes and the tokens that are not trivia among the children of a node.
child_nodes(e) == SelectSeq(e.ch, IsNode)
child_leaves(e) == SelectSeq(e.ch, LAMBDA c : IsToken(c) /\ ~is_trivia(c.kind))

\* The node is an ATTRIBUTE whose name is the token k.
AttributeNamed(e, k) ==
    /\ e.kind = "ATTRIBUTE"
    /\ child_leaves(e)[1] = [kind |-> keyword_kind(k), text |-> k]

\* The node is a BLOCK of type k with the one label k.
BlockNamed(e, k) ==
    /\ e.kind = "BLOCK"
    /\ child_leaves(e)[1] = [kind |-> keyword_kind(k), text |-> k]
    /\ node_kinds(e) = <<"BLOCK_LABEL", "BODY">>
    /\ child_nodes(e)[1].ch = <<[kind |-> keyword_kind(k), text |-> k]>>

\* C21: for each keyword k, `k = <expr>` parses as an ATTRIBUTE named k and
\* `k k { }` as a BLOCK of type k with the one BLOCK_LABEL k, at the top level
\* and in the body of a block, with no error, and the formatted text keeps
\* the name k.
KeywordsAsNames ==
    \A i \in 1..Len(Keywords) :
        LET k == Keywords[i]
            items == child_nodes(green.ch[1])
        IN /\ (Parsed /\ source = KeywordAttribute(k)) =>
                  /\ errors = <<>>
                  /\ Len(items) = 1 /\ AttributeNamed(items[1], k)
                  /\ (Formatted => result.text = KeywordAttribute(k) \o <<"\n">>)
           /\ (Parsed /\ source = KeywordBlock(k)) =>
                  /\ errors = <<>>
                  /\ Len(items) = 1 /\ BlockNamed(items[1], k)
                  /\ (Formatted =>
                        result.text = k \o <<" ">> \o k \o <<" ", "{", "\n", "}", "\n">>)
           /\ (Parsed /\ source = KeywordNested(k)) =>
                  /\ errors = <<>>
                  /\ Len(items) = 1 /\ items[1].kind = "BLOCK"
                  /\ LET inner == child_nodes(child_nodes(items[1])[1])
                     IN Len(inner) = 1 /\ AttributeNamed(inner[1], k)
                  /\ (Formatted =>
                        result.text = <<"b", " ", "{", "\n", " ", " ">> \o KeywordAttribute(k)
                                          \o <<"\n", "}", "\n">>)

\* `endfor endfor { }` has been parsed and formatted.
KeywordsAsNamesWitness ==
    /\ Formatted
    /\ source = KeywordBlock(Keywords[9])
    /\ result.status = "Changed"
    /\ BlockNamed(child_nodes(green.ch[1])[1], Keywords[9])

\* The text of a tree without its trivia, each BINARY_EXPR, UNARY_EXPR and
\* CONDITIONAL_EXPR node in parentheses.
RECURSIVE grouped(_)
grouped(e) ==
    IF IsToken(e) THEN (IF is_trivia(e.kind) THEN <<>> ELSE e.text)
    ELSE LET inner == Flatten([i \in 1..Len(e.ch) |-> grouped(e.ch[i])])
         IN IF e.kind \in {"BINARY_EXPR", "UNARY_EXPR", "CONDITIONAL_EXPR"}
            THEN <<"(">> \o inner \o <<")">>
            ELSE inner

\* The level of the i-th operator of Operators: 1 for `||`, 2 for `&&`, 3 for
\* `==` and `!=`, 4 for the comparisons, 5 for `+` and `-`, 6 for `*`, `/`, `%`.
Level(i) ==
    CASE i = 1 -> 1
      [] i = 2 -> 2
      [] i \in {3, 4} -> 3
      [] i \in 5..8 -> 4
      [] i \in {9, 10} -> 5
      [] i \in 11..13 -> 6

\* The value of the one attribute of the file, grouped.
ValueGrouped == grouped(child_nodes(child_nodes(green.ch[1])[1])[1])

\* C22: `a op1 b op2 c` parses to a op1 (b op2 c) when the level of op2 is
\* strictly higher than that of op1 and to (a op1 b) op2 c otherwise; a unary
\* `-` or `!` binds tighter than every binary operator and a conditional
\* looser than every one.
PrecedenceAndAssociativity ==
    \A i, j \in 1..Len(Operators), u \in {"-", "!"} :
        LET op1 == Operators[i]
            op2 == Operators[j]
        IN /\ (Parsed /\ source = Attr(Chain(<<i, j>>, 1))) =>
                  /\ errors = <<>>
                  /\ ValueGrouped =
                         IF Level(j) > Level(i)
                         THEN <<"(", "a">> \o op1 \o <<"(", "b">> \o op2 \o <<"c", ")", ")">>
                         ELSE <<"(", "(", "a">> \o op1 \o <<"b", ")">> \o op2 \o <<"c", ")">>
           /\ (Parsed /\ source = Attr(UnaryFirst(u, op1))) =>
                  /\ errors = <<>>
                  /\ ValueGrouped = <<"(", "(", u, "a", ")">> \o op1 \o <<"b", ")">>
           /\ (Parsed /\ source = Attr(UnarySecond(u, op1))) =>
                  /\ errors = <<>>
                  /\ ValueGrouped = <<"(", "a">> \o op1 \o <<"(", u, "b", ")", ")">>
           /\ (Parsed /\ source = Attr(InCondition(op1))) =>
                  /\ errors = <<>>
                  /\ ValueGrouped = <<"(", "(", "a">> \o op1 \o <<"b", ")", "?", "c", ":", "d", ")">>
           /\ (Parsed /\ source = Attr(InThen(op1))) =>
                  /\ errors = <<>>
                  /\ ValueGrouped = <<"(", "a", "?", "(", "b">> \o op1 \o <<"c", ")", ":", "d", ")">>
           /\ (Parsed /\ source = Attr(InElse(op1))) =>
                  /\ errors = <<>>
                  /\ ValueGrouped = <<"(", "a", "?", "b", ":", "(", "c">> \o op1 \o <<"d", ")", ")">>

\* `x = a + b * c` and `x = a * b + c` have been parsed, each in its way.
PrecedenceAndAssociativityWitness ==
    /\ Parsed
    /\ \/ /\ source = Attr(Chain(<<9, 11>>, 1))
          /\ ValueGrouped = <<"(", "a", "+", "(", "b", "*", "c", ")", ")">>
       \/ /\ source = Attr(Chain(<<10, 10>>, 1))
          /\ ValueGrouped = <<"(", "(", "a", "-", "b", ")", "-", "c", ")">>

\* The ATTRIBUTE nodes of a tree.
RECURSIVE Attributes(_)
Attributes(e) ==
    IF IsToken(e) THEN {}
    ELSE (IF e.kind = "ATTRIBUTE" THEN {e} ELSE {})
         \cup UNION {Attributes(e.ch[i]) : i \in 1..Len(e.ch)}

\* The children of a node that are not trivia.
significant(e) == SelectSeq(e.ch, LAMBDA c : IsNode(c) \/ ~is_trivia(c.kind))

\* C23: in every tree parse_file returns, with or without errors, the
\* children of each ATTRIBUTE node other than trivia are, in this order, one
\* ident-like leaf, one EQ leaf and one node (the value, possibly an ERROR
\* node).
AttributeShape ==
    Parsed =>
        \A a \in Attributes(green) :
            LET s == significant(a)
            IN /\ Len(s) = 3
               /\ IsToken(s[1]) /\ is_ident_like(s[1].kind)
               /\ IsToken(s[2]) /\ s[2].kind = "EQ"
               /\ IsNode(s[3])

\* An attribute with nothing after its `=`: the value is an empty ERROR node.
AttributeShapeWitness ==
    /\ Parsed
    /\ errors # <<>>
    /\ \E a \in Attributes(green) :
           significant(a)[3].kind = "ERROR" /\ significant(a)[3].ch = <<>>


\* The ARG_LIST nodes of a tree.
RECURSIVE ArgLists(_)
ArgLists(e) ==
    IF IsToken(e) THEN {}
    ELSE (IF e.kind = "ARG_LIST" THEN {e} ELSE {})
         \cup UNION {ArgLists(e.ch[i]) : i \in 1..Len(e.ch)}

\* The text of a tree without its trivia.
RECURSIVE bare_text(_)
bare_text(e) ==
    IF IsToken(e) THEN (IF is_trivia(e.kind) THEN <<>> ELSE e.text)
    ELSE Flatten([i \in 1..Len(e.ch) |-> bare_text(e.ch[i])])

\* Each argument on its own line, one level deep, with a comma after it.
ArgLines(args) == Flatten([i \in 1..Len(args) |-> INDENT \o bare_text(args[i]) \o <<",", "\n">>])

\* The number of newlines of a text.
newlines_in(q) == Cardinality({i \in 1..Len(q) : q[i] = "\n"})

\* The file is `y = f(...)`, read for the first time.
CallFile == first.source = <<>> /\ source \in CallInputs

\* The ARG_LIST of the call that is the value of the one attribute of the file.
CallArgs == child_nodes(child_nodes(child_nodes(green.ch[1])[1])[1])[1]

\* C25: the arguments of a call are written on one line exactly when the
\* ARG_LIST subtree holds no NEWLINE token at any depth; otherwise each
\* argument is on its own line one level deeper, each followed by a comma,
\* and the `)` is at the outer indent.
ArgListLayout ==
    (Produced /\ CallFile) =>
        IF ~node_contains_newline_recursive(CallArgs)
        THEN newlines_in(result.text) = 1
        ELSE result.text = <<"y", " ", "=", " ", "f", "(", "\n">>
                               \o ArgLines(child_nodes(CallArgs)) \o <<")", "\n">>

\* The index of the first c in q from the i-th element on, 0 if there is none.
RECURSIVE index_of(_, _, _)
index_of(q, c, i) ==
    IF i > Len(q) THEN 0 ELSE IF q[i] = c THEN i ELSE index_of(q, c, i + 1)

\* The lines of a text, each without its newline.
RECURSIVE lines_of(_)
lines_of(q) ==
    LET n == index_of(q, "\n", 1)
    IN IF q = <<>> THEN <<>>
       ELSE IF n = 0 THEN <<q>>
       ELSE <<SubSeq(q, 1, n - 1)>> \o lines_of(SubSeq(q, n + 1, Len(q)))

\* The file is `x = {`, the lines of the elements and `}`, read for the first time.
ObjectFile == first.source = <<>> /\ source \in ObjectInputs

\* The lines of the elements in the output: those between `x = {` and `}`.
ElemLines == LET l == lines_of(result.text) IN SubSeq(l, 2, Len(l) - 1)

\* C26: in a multiline object of the formatted output the separators of all
\* elements start at the same column, whatever expression the key is and
\* however the source spaced it.
ObjectKeysAligned ==
    (Produced /\ ObjectFile) =>
        \A i, j \in 1..Len(ElemLines) :
            index_of(ElemLines[i], "=", 1) = index_of(ElemLines[j], "=", 1)

\* The file is a body of attributes, blocks and blank lines, read for the first time.
BodyFile == first.source = <<>> /\ source \in BodyInputs

\* The lines of the output without their indentation.
OutLines == LET l == lines_of(result.text) IN [i \in 1..Len(l) |-> trim_start(l[i])]

AttributeLine == <<"a", " ", "=", " ", "1">>
BlockLine == <<"b", " ", "{">>
CloseLine == <<"}">>

\* Line i of the output comes after exactly one blank line, and before that
\* blank line is a line of an item.
AfterOneBlank(i) == i > 2 /\ OutLines[i - 1] = <<>> /\ OutLines[i - 2] \in {AttributeLine, CloseLine}

\* C24: in the formatted output a block that follows an attribute or a block
\* of the same body is separated from it by exactly one blank line, however
\* many blank lines the source had between them, and so is an attribute that
\* follows a block.
OneBlankLineAroundBlocks ==
    (Produced /\ BodyFile) =>
        \A i \in 1..Len(OutLines) :
            LET before == {j \in 1..(i - 1) : OutLines[j] # <<>>}
                prev == IF before = {} THEN <<>>
                        ELSE OutLines[CHOOSE j \in before : \A k \in before : k <= j]
            IN /\ (OutLines[i] = BlockLine /\ prev \in {AttributeLine, CloseLine})
                      => AfterOneBlank(i)
               /\ (OutLines[i] = AttributeLine /\ prev = CloseLine) => AfterOneBlank(i)

\* The index after the digits of t that start at index i.
RECURSIVE after_digits(_, _)
after_digits(t, i) == IF i <= Len(t) /\ t[i] \in Digit THEN after_digits(t, i + 1) ELSE i

\* t matches digit+ ('.' digit+)? ([eE] [+-]? digit+)?
IsNumberText(t) ==
    LET p1 == after_digits(t, 1)
        frac == p1 <= Len(t) /\ t[p1] = "."
        p2 == IF frac THEN after_digits(t, p1 + 1) ELSE p1
        exp == p2 <= Len(t) /\ t[p2] \in {"e", "E"}
        q == IF exp /\ p2 + 1 <= Len(t) /\ t[p2 + 1] \in {"+", "-"} THEN p2 + 2 ELSE p2 + 1
        p3 == IF exp THEN after_digits(t, q) ELSE p2
    IN /\ p1 > 1
       /\ frac => p2 > p1 + 1
       /\ exp => p3 > q
       /\ p3 = Len(t) + 1

\* C27: the text of every NUMBER token matches
\* digit+ ('.' digit+)? ([eE] [+-]? digit+)?: a point belongs to the number
\* only when a digit follows it, and an exponent marker with its optional
\* sign only when at least one digit follows.
NumberWellFormed ==
    \A i \in 1..Len(tokens) : tokens[i].kind = "NUMBER" => IsNumberText(tokens[i].text)

\* The step popped the frame on top of the mode stack, and the token it made
\* is the event that closes a frame of that kind.
PopMatches ==
    LET top == Last(mode_stack)
        tok == Last(tokens')
    IN /\ mode_stack' = Front(mode_stack)
       /\ Len(tokens') = Len(tokens) + 1
       /\ CASE top.mode = "StringTemplate" -> tok.kind = "QUOTE"
            [] top.mode = "HeredocTemplate" -> tok.kind = "HEREDOC_ANCHOR"
            [] top.mode \in {"Interpolation", "Directive"} ->
                   tok.kind = "TEMPLATE_CLOSE" /\ top.brace_depth = 0
            [] OTHER -> FALSE

\* C28: at every point of lexing the mode stack is non-empty and its bottom
\* frame is Normal, and a step that shortens the stack pops exactly the top
\* frame by the event of that frame's kind: the closing quote for a
\* StringTemplate, the anchor line for a HeredocTemplate, `}` at depth 0 for an
\* Interpolation or a Directive; the Normal frame is never popped.
ModeStackDiscipline ==
    /\ [](mode_stack # <<>> /\ mode_stack[1].mode = "Normal")
    /\ [][Len(mode_stack') < Len(mode_stack) => PopMatches]_vars

\* A string with an interpolation was lexed to its closing quote: the
\* Interpolation frame and then the StringTemplate frame were popped.
ModeStackDisciplineWitness ==
    /\ pc = "tokenize"
    /\ Len(mode_stack) = 1
    /\ \E i, j \in 1..Len(tokens) :
           /\ i < j
           /\ tokens[i].kind = "TEMPLATE_CLOSE"
           /\ tokens[j].kind = "QUOTE"
           /\ j = Len(tokens)

\* What is left for the lexer to do: the bytes after pos count twice, so that
\* a step that pushes a frame and advances still makes it smaller.
LexerMeasure(p, ms) == 2 * (Len(source) - p) + Len(ms)

\* One iteration of the loop of tokenize goes forward.
LexerStepAdvances ==
    (pc = "tokenize" /\ tokens' # tokens) =>
        /\ pos' > pos \/ Len(mode_stack') < Len(mode_stack)
        /\ pos' <= Len(source)
        /\ LexerMeasure(pos', mode_stack') < LexerMeasure(pos, mode_stack)

\* One iteration of the loop of parse_body for the body of the file consumes
\* a token.
BodyItemAdvances ==
    (pc = "parse" /\ pc' = "parse") =>
        (parser'.pos > parser.pos /\ parser'.pos <= Len(tokens))

\* C29: parse_file terminates.  Each lexer step advances the source position
\* by at least one byte or pops a mode frame, and never moves past the end of
\* the text; each iteration of each loop of the parser (body items, block
\* labels, binary and postfix chains, splat bodies, argument lists, tuple and
\* object elements, string and heredoc parts, error recovery) consumes at
\* least one token, so that no loop is ever hung.
ParseFileTerminates ==
    /\ [](pc = "parse" => ~parser.hung)
    /\ [][LexerStepAdvances /\ BodyItemAdvances]_vars

\* The lexer popped the frame of a heredoc with an empty anchor without
\* advancing, and the parser went through the damaged file, past an ERROR
\* node of error recovery, to the end.
ParseFileTerminatesWitness ==
    /\ Parsed
    /\ errors # <<>>
    /\ \E i \in 1..Len(tokens) : tokens[i].kind = "HEREDOC_ANCHOR" /\ tokens[i].text = <<>>
    /\ \E i \in 1..Len(green.ch) : \E j \in 1..Len(green.ch[i].ch) :
           IsNode(green.ch[i].ch[j]) /\ green.ch[i].ch[j].kind = "ERROR"

\* The errors recorded so far: the parser's while it runs, then the returned
\* list.
recorded_errors == IF pc = "parse" THEN parser.errors ELSE errors

\* The token kind an error's message says was found, for the messages that
\* say one.
names_found(e) == Len(e.message) >= 2

\* The parser stood at index i of the tokens (i tokens before it) when it
\* recorded e: the offset is the bytes of those tokens, i.e. the start of
\* the next token or the end of the text, and the kind the message names is
\* that token's kind.
RecordedAt(e, i) ==
    /\ e.offset = text_len(tokens, i)
    /\ names_found(e) =>
           Last(e.message) = (IF i < Len(tokens) THEN tokens[i + 1].kind ELSE NoKind)
    /\ e.message[1] \in {"unterminated string", "unterminated heredoc"} => i = Len(tokens)

\* C30: every ParseError has an offset between 0 and the byte length of the
\* text, equal to the start offset of the token the parser was at when it
\* recorded the error, or to the length of the text at end of input; and the
\* offsets of the list are non-decreasing in list order.
ErrorOffsets ==
    (pc \in {"parse", "parsed", "formatted"}) =>
        /\ \A k \in 1..Len(recorded_errors) :
               /\ recorded_errors[k].offset \in 0..Len(source)
               /\ \E i \in 0..Len(tokens) : RecordedAt(recorded_errors[k], i)
        /\ \A k \in 1..(Len(recorded_errors) - 1) :
               recorded_errors[k].offset <= recorded_errors[k + 1].offset

\* Two errors were returned, the first inside the text at a token after the
\* first, the last at the end of input.
ErrorOffsetsWitness ==
    /\ Parsed
    /\ Len(errors) >= 2
    /\ errors[1].offset > 0
    /\ errors[1].offset < errors[Len(errors)].offset
    /\ errors[Len(errors)].offset = Len(source)

====
